---- MODULE Spec2Model ----
(***************************************************************************)
(* A model of the asteroid risk service (Tojan-Naiem/hack): the id-seeded  *)
(* generators that share the process-wide random generator, the physics    *)
(* functions, the hazard assessment, the defense strategies, the cost      *)
(* optimizer, the impact date calculator, the collaborators over HTTP and  *)
(* the endpoints that take an asteroid id, the table of asteroids and the  *)
(* functions that read it.                                                 *)
(*                                                                         *)
(* Numbers.  Latitudes and longitudes are integers in units of 1e-4        *)
(* degree, coast distances in units of 0.1 km, miss distances in whole     *)
(* kilometres, energies in whole megatons, diameters handed to the mass    *)
(* function in tenths of the unit the record holds.  All arithmetic on     *)
(* them is exact.                                                          *)
(***************************************************************************)
EXTENDS Integers, Sequences, FiniteSets, TLC

VARIABLES
    rng,    \* the state of the module-level generator of the random library
    call,   \* per caller: the call it is making of a generator, and its locals
    phys,   \* the last call of a physics function: arguments and outcome
    haz,    \* the last call of a hazard function: arguments and outcome
    now,    \* the clock datetime.now() reads, in hours since the start of day 0
    resp,   \* per caller: the last call of a service function and its outcome
    db      \* the table asteroids of the database: the set of its rows

vars == <<rng, call, phys, haz, now, resp, db>>

(***************************************************************************)
(* Bounds of the model.                                                    *)
(***************************************************************************)
\* asteroid ids run over -MaxId..MaxId
MaxId == 2
\* the states os.urandom can seed the generator with: 0..MaxEntropy
MaxEntropy == 1
\* the number of states of the modelled generator
GeneratorModulus == 100

Callers == {"c1", "c2"}
Ids == (0 - MaxId)..MaxId
EntropyStates == 0..MaxEntropy

Abs(n) == IF n < 0 THEN 0 - n ELSE n

(***************************************************************************)
(* The random library.  Its generator (a Mersenne Twister) is modelled as  *)
(* a small congruential generator: like the library's it is a              *)
(* deterministic function of the seed and of the draws made since.  src    *)
(* and key record where the state comes from: seed(a) with an integer a    *)
(* (the library seeds with abs(a)), or seed() from system entropy.         *)
(***************************************************************************)
seed_omitted(a) == rng

seed(a) == [src |-> "seed", key |-> Abs(a), x |-> Abs(a) % GeneratorModulus]

seed_entropy(e) == [src |-> "entropy", key |-> e, x |-> e % GeneratorModulus]

\* the generator after one draw
Advance(g) == [g EXCEPT !.x = (21 * g.x + 7) % GeneratorModulus]

\* random.randint(a, b): a uniform integer of a..b
randint(g, a, b) == a + (Advance(g).x % (b - a + 1))

\* random.uniform(a, b) = a + (b - a) * random(), in units of 1e-4 degree
uniform(g, a, b) == a * 10000 + (((b - a) * 10000 * Advance(g).x) \div GeneratorModulus)

(***************************************************************************)
(* AsteroidTypeClassifier.classify_by_id                                   *)
(***************************************************************************)
type_distribution ==
    << <<"S", 45>>, <<"C", 30>>, <<"M", 5>>, <<"Q", 5>>,
       <<"V", 3>>, <<"B", 2>>, <<"K", 2>>, <<"D", 2>>,
       <<"P", 2>>, <<"R", 1>>, <<"T", 1>>, <<"A", 1>>, <<"L", 1>> >>

RECURSIVE SumWeights(_)
SumWeights(n) == IF n = 0 THEN 0 ELSE SumWeights(n - 1) + type_distribution[n][2]

\* total = sum(weight for _, weight in type_distribution)
total == SumWeights(Len(type_distribution))

\* the for loop of classify_by_id from entry i on, cumulative being the sum
\* of the weights before it: the first entry with rand_val <= cumulative,
\* and "UNKNOWN" when the loop runs out
RECURSIVE ClassifyLoop_strict(_, _, _)
ClassifyLoop_strict(rand_val, i, cumulative) ==
    IF i > Len(type_distribution) THEN "UNKNOWN"
    ELSE IF rand_val < cumulative + type_distribution[i][2]
         THEN type_distribution[i][1]
         ELSE ClassifyLoop_strict(rand_val, i + 1, cumulative + type_distribution[i][2])

RECURSIVE ClassifyLoop(_, _, _)
ClassifyLoop(rand_val, i, cumulative) ==
    IF i > Len(type_distribution) THEN "UNKNOWN"
    ELSE IF rand_val <= cumulative + type_distribution[i][2]
         THEN type_distribution[i][1]
         ELSE ClassifyLoop(rand_val, i + 1, cumulative + type_distribution[i][2])

IdleCall == [pc |-> "idle", op |-> "none", arg |-> 0, rand_val |-> 0,
             lat |-> 0, lng |-> 0, ret |-> "none", site |-> <<>>]

\* no caller is inside a call
Quiet == \A c \in Callers : call[c].pc \in {"idle", "done"}

\* line 152: random.seed(asteroid_id)
classify_by_id_seed(c, id) ==
    /\ call[c].pc \in {"idle", "done"}
    /\ rng' = seed(id)
    /\ call' = [call EXCEPT ![c] = [IdleCall EXCEPT !.pc = "cls_seeded",
                                       !.op = "classify_by_id", !.arg = id]]
    /\ UNCHANGED <<phys, haz, now, resp, db>>

\* lines 160-161: rand_val = random.randint(1, total)
classify_by_id_draw(c) ==
    /\ call[c].pc = "cls_seeded"
    /\ call' = [call EXCEPT ![c].pc = "cls_drawn",
                            ![c].rand_val = randint(rng, 1, total)]
    /\ rng' = Advance(rng)
    /\ UNCHANGED <<phys, haz, now, resp, db>>

ReseedOnReturn_missing(g, e) == g

\* what random.seed() leaves the generator in on a return path
ReseedOnReturn(g, e) == seed_entropy(e)

\* lines 163-171: the loop, random.seed() and the return
classify_by_id_return(c) ==
    /\ call[c].pc = "cls_drawn"
    /\ \E e \in EntropyStates : rng' = ReseedOnReturn(rng, e)
    /\ call' = [call EXCEPT ![c].pc = "done",
                            ![c].ret = ClassifyLoop(call[c].rand_val, 1, 0)]
    /\ UNCHANGED <<phys, haz, now, resp, db>>

(***************************************************************************)
(* LocationAnalyzer.generate_impact_site (location_analyzer.py)            *)
(***************************************************************************)
\* line 92: random.seed(asteroid_id)
LocationAnalyzer_generate_impact_site_seed(c, id) ==
    /\ call[c].pc \in {"idle", "done"}
    /\ rng' = seed(id)
    /\ call' = [call EXCEPT ![c] = [IdleCall EXCEPT !.pc = "site_seeded",
                                       !.op = "LocationAnalyzer_generate_impact_site",
                                       !.arg = id]]
    /\ UNCHANGED <<phys, haz, now, resp, db>>

\* line 93: lat = random.uniform(-60, 60)
DrawLat(g) == uniform(g, -60, 60)

LocationAnalyzer_generate_impact_site_lat(c) ==
    /\ call[c].pc = "site_seeded"
    /\ call' = [call EXCEPT ![c].pc = "site_lat", ![c].lat = DrawLat(rng)]
    /\ rng' = Advance(rng)
    /\ UNCHANGED <<phys, haz, now, resp, db>>

\* lines 94-95: lng = random.uniform(-180, 180); return lat, lng
LocationAnalyzer_generate_impact_site_return(c) ==
    /\ call[c].pc = "site_lat"
    /\ call' = [call EXCEPT ![c].pc = "done",
                            ![c].lng = uniform(rng, -180, 180),
                            ![c].site = <<call[c].lat, uniform(rng, -180, 180)>>]
    /\ rng' = Advance(rng)
    /\ UNCHANGED <<phys, haz, now, resp, db>>

(***************************************************************************)
(* generate_impact_site (main.py), the one the endpoints call              *)
(***************************************************************************)
impact_sites ==
    << <<407128, -740060>>,     \* New York
       <<356762, 1396503>>,     \* Tokyo
       <<250000, 550000>>,      \* Dubai
       <<-338688, 1512093>>,    \* Sydney
       <<0, 0>>,                \* Atlantic Ocean
       <<-450000, -1700000>>,   \* Pacific Ocean
       <<488566, 23522>> >>     \* Paris

\* impact_sites[asteroid_id % len(impact_sites)], the list indexed from 0
SiteOf(asteroid_id) == impact_sites[(asteroid_id % Len(impact_sites)) + 1]

generate_impact_site(c, id) ==
    /\ call[c].pc \in {"idle", "done"}
    /\ call' = [call EXCEPT ![c] = [IdleCall EXCEPT !.pc = "done",
                                       !.op = "generate_impact_site", !.arg = id,
                                       !.lat = SiteOf(id)[1], !.lng = SiteOf(id)[2],
                                       !.site = SiteOf(id)]]
    /\ UNCHANGED <<rng, phys, haz, now, resp, db>>

\* a text, and the text of a date with the day number it spells
Str(s) == [text |-> s]
DateStr(ordinal) == [text |-> "%Y-%m-%d", ordinal |-> ordinal]

\* the table asteroids after startup: a row at 0.0096 AU and a row at
\* 0.067 AU
Storage ==
    [id \in {1, 2} |->
        [id |-> id, name |-> "(2026 AB)", date |-> DateStr(739919),
         diameter_avg |-> 150, velocity_km_s |-> 20,
         miss_distance_km |-> IF id = 1 THEN 1440000 ELSE 10000000,
         energy_megatons_TNT |-> 12]]

IdlePhys == [fn |-> "none"]
IdleHaz == [fn |-> "none"]
IdleResp == [fn |-> "none"]

\* the days the clock is read on (day numbers of the proleptic Gregorian
\* calendar, date.toordinal): 2026-11-01 and the two days after it
Days == {739921, 739922, 739923}
\* the clock reads 10:00 on a day
Clock == {d * 24 + 10 : d \in Days}

\* the service functions at rest, the clock on the first day, the table
\* as startup loaded it
SvcIdle ==
    /\ now = 739921 * 24 + 10
    /\ resp = [c \in Callers |-> IdleResp]
    /\ db = {Storage[id] : id \in DOMAIN Storage}

(***************************************************************************)
(* Spec: the callers run concurrently; each statement that touches the     *)
(* shared generator is one step.                                           *)
(***************************************************************************)
Init ==
    /\ rng \in {seed_entropy(e) : e \in EntropyStates}
    /\ call = [c \in Callers |-> IdleCall]
    /\ phys = IdlePhys
    /\ haz = IdleHaz
    /\ SvcIdle

Next ==
    \E c \in Callers :
        \/ \E id \in Ids : classify_by_id_seed(c, id)
        \/ classify_by_id_draw(c)
        \/ classify_by_id_return(c)
        \/ \E id \in Ids : LocationAnalyzer_generate_impact_site_seed(c, id)
        \/ LocationAnalyzer_generate_impact_site_lat(c)
        \/ LocationAnalyzer_generate_impact_site_return(c)
        \/ \E id \in Ids : generate_impact_site(c, id)

Spec == Init /\ [][Next]_vars

(***************************************************************************)
(* SeqSpec: a sequential run; a call starts only when no call is running.  *)
(***************************************************************************)
SeqNext ==
    \E c \in Callers :
        \/ Quiet /\ \E id \in Ids : classify_by_id_seed(c, id)
        \/ classify_by_id_draw(c)
        \/ classify_by_id_return(c)
        \/ Quiet /\ \E id \in Ids : LocationAnalyzer_generate_impact_site_seed(c, id)
        \/ LocationAnalyzer_generate_impact_site_lat(c)
        \/ LocationAnalyzer_generate_impact_site_return(c)
        \/ Quiet /\ \E id \in Ids : generate_impact_site(c, id)

SeqSpec == Init /\ [][SeqNext]_vars

(***************************************************************************)
(* AsteroidPhysics (physics.py)                                            *)
(***************************************************************************)
\* density=2600, the default of calculate_mass
DefaultDensity == 2600

calculate_mass_radius_is_diameter(d10, density) ==
    [raised |-> "none",
     radius_cubed_8000 |-> 8 * d10 * d10 * d10,
     mass_pi_6000 |-> density * 8 * d10 * d10 * d10]

\* calculate_mass(diameter_m, density), the argument given in tenths (d10):
\* radius_m = diameter_m / 2 = d10/20, so radius_m ** 3 = d10^3 / 8000, and
\* volume_m3 * density = (4/3) * pi * radius_m^3 * density
\*                     = (pi / 6000) * density * d10^3.
\* Nothing is checked and nothing is raised.
calculate_mass(d10, density) ==
    [raised |-> "none",
     radius_cubed_8000 |-> d10 * d10 * d10,
     mass_pi_6000 |-> density * d10 * d10 * d10]

\* calculate_kinetic_energy(mass_kg, velocity_km_s), the energy in kJ:
\* 0.5 * mass_kg * (velocity_km_s * 1000)^2 J = 500 * mass_kg * velocity^2 kJ;
\* energy_megatons = joules / 4.184e15 = kJ / (418400 * 10^7);
\* hiroshima_bombs = energy_megatons / 0.015 = kJ / (6276 * 10^7).
\* Nothing is checked and nothing is raised.
calculate_kinetic_energy(mass_kg, velocity_km_s) ==
    LET energy_kJ == 500 * mass_kg * velocity_km_s * velocity_km_s
    IN  [raised |-> "none",
         energy_kJ |-> energy_kJ,
         energy_megatons_TNT |-> [num |-> energy_kJ, den_e7 |-> 418400],
         hiroshima_equivalent |-> [num |-> energy_kJ, den_e7 |-> 6276]]

\* distance_km / 149597870.7 < h / 100, for a whole number of km:
\* distance_km < h * 1495978.707, decided without leaving 32 bits
AuLt(distance_km, h) ==
    LET q == distance_km - h * 1495978
    IN  IF q <= 0 THEN TRUE ELSE IF q >= h THEN FALSE ELSE q * 1000 < h * 707

\* distance_km / 149597870.7 <= h / 100
AuLe(distance_km, h) ==
    LET q == distance_km - h * 1495978
    IN  IF q <= 0 THEN TRUE ELSE IF q >= h THEN FALSE ELSE q * 1000 <= h * 707

classify_hazard_civilization_first(diameter_m, distance_km, energy_mt) ==
    IF diameter_m >= 300 /\ AuLt(distance_km, 10) /\ energy_mt > 1000
    THEN "CIVILIZATION_THREAT"
    ELSE IF diameter_m >= 1000 /\ AuLt(distance_km, 5) THEN "EXTINCTION_LEVEL"
    ELSE IF diameter_m >= 140 /\ AuLt(distance_km, 5) THEN "REGIONAL_DEVASTATION"
    ELSE IF diameter_m >= 50 /\ AuLt(distance_km, 1) THEN "CITY_DESTROYER"
    ELSE "LOW_RISK"

classify_hazard(diameter_m, distance_km, energy_mt) ==
    IF diameter_m >= 1000 /\ AuLt(distance_km, 5) THEN "EXTINCTION_LEVEL"
    ELSE IF diameter_m >= 300 /\ AuLt(distance_km, 10) /\ energy_mt > 1000
    THEN "CIVILIZATION_THREAT"
    ELSE IF diameter_m >= 140 /\ AuLt(distance_km, 5) THEN "REGIONAL_DEVASTATION"
    ELSE IF diameter_m >= 50 /\ AuLt(distance_km, 1) THEN "CITY_DESTROYER"
    ELSE "LOW_RISK"

\* the arguments the physics functions are called with
MassDiameters10 == {-10, 0, 5, 10, 20}          \* -1.0, 0, 0.5, 1.0, 2.0
Masses == {0, 1, 2, 1000}
Velocities == {-20, -1, 0, 1, 20}
HazardDiameters == {49, 50, 139, 140, 299, 300, 999, 1000, 1500}
HazardDistances == {1000000, 1495978, 1495979, 7479893, 7479894, 14959787, 14959788}
HazardEnergies == {0, 1000, 1001, 50000}

\* mass = physics.calculate_mass(asteroid['diameter_avg']), as the endpoints
\* call it (main.py 1711): the record's diameter_avg is passed on as it is
physics_calculate_mass(diameter_avg10) ==
    /\ phys' = [fn |-> "calculate_mass",
                args |-> [diameter |-> diameter_avg10, density |-> DefaultDensity],
                out |-> calculate_mass(diameter_avg10, DefaultDensity)]
    /\ UNCHANGED <<rng, call, haz, now, resp, db>>

physics_calculate_kinetic_energy(mass_kg, velocity_km_s) ==
    /\ phys' = [fn |-> "calculate_kinetic_energy",
                args |-> [mass_kg |-> mass_kg, velocity_km_s |-> velocity_km_s],
                out |-> calculate_kinetic_energy(mass_kg, velocity_km_s)]
    /\ UNCHANGED <<rng, call, haz, now, resp, db>>

physics_classify_hazard(diameter_m, distance_km, energy_mt) ==
    /\ phys' = [fn |-> "classify_hazard",
                args |-> [diameter_m |-> diameter_m, distance_km |-> distance_km,
                          energy_mt |-> energy_mt],
                out |-> classify_hazard(diameter_m, distance_km, energy_mt)]
    /\ UNCHANGED <<rng, call, haz, now, resp, db>>

\* the generators at rest
RngIdle == rng = seed_entropy(0) /\ call = [c \in Callers |-> IdleCall]

(***************************************************************************)
(* PhysSpec: the physics functions called with arguments of the sets       *)
(* above, in any order.                                                    *)
(***************************************************************************)
PhysInit == RngIdle /\ phys = IdlePhys /\ haz = IdleHaz /\ SvcIdle

PhysNext ==
    \/ \E d \in MassDiameters10 : physics_calculate_mass(d)
    \/ \E m \in Masses, v \in Velocities : physics_calculate_kinetic_energy(m, v)
    \/ \E d \in HazardDiameters, k \in HazardDistances, e \in HazardEnergies :
          physics_classify_hazard(d, k, e)

PhysSpec == PhysInit /\ [][PhysNext]_vars

(***************************************************************************)
(* Geography and hazards (location_analyzer.py, main.py)                   *)
(***************************************************************************)
\* the three boxes without their edges
is_ocean_location_open_boxes(lat, lng) ==
    \/ (-600000 < lat /\ lat < 600000) /\ (-1800000 < lng /\ lng < -600000)
    \/ (-600000 < lat /\ lat < 600000) /\ (-600000 < lng /\ lng < 200000)
    \/ (-600000 < lat /\ lat < 300000) /\ (200000 < lng /\ lng < 1200000)

\* the three boxes, the second one ending at the meridian of Greenwich
is_ocean_location_atlantic_to_greenwich(lat, lng) ==
    \/ (-600000 <= lat /\ lat <= 600000) /\ (-1800000 <= lng /\ lng <= -600000)
    \/ (-600000 <= lat /\ lat <= 600000) /\ (-600000 <= lng /\ lng <= 0)
    \/ (-600000 <= lat /\ lat <= 300000) /\ (200000 <= lng /\ lng <= 1200000)

\* LocationAnalyzer.is_ocean_location: the three boxes, bounds inclusive
is_ocean_location(lat, lng) ==
    IF (-600000 <= lat /\ lat <= 600000) /\ (-1800000 <= lng /\ lng <= -600000)
    THEN TRUE
    ELSE IF (-600000 <= lat /\ lat <= 600000) /\ (-600000 <= lng /\ lng <= 200000)
    THEN TRUE
    ELSE IF (-600000 <= lat /\ lat <= 300000) /\ (200000 <= lng /\ lng <= 1200000)
    THEN TRUE
    ELSE FALSE

\* the places the hazard functions are called with: the seven impact sites
\* and five more
Locations ==
    {impact_sites[i] : i \in 1..Len(impact_sites)}
        \cup {<<700000, 0>>, <<450000, 900000>>, <<-600000, 200000>>,
              <<300000, 1200000>>, <<450000, -150000>>}

\* round(min_distance, 1) of calculate_distance_to_coast in units of 0.1 km:
\* the least haversine distance (R = 6371 km) from the place to the 19
\* coastal_points, tabulated for the ocean places of Locations
min_coastal_distance(lat, lng) ==
    CASE <<lat, lng>> = <<407128, -740060>> -> 15        \* to (40.7, -74.0)
      [] <<lat, lng>> = <<250000, 550000>> -> 43118      \* to (41.9, 12.5)
      [] <<lat, lng>> = <<0, 0>> -> 38196                \* to (33.6, -7.6)
      [] <<lat, lng>> = <<-450000, -1700000>> -> 12976   \* to (-41.3, 174.8)
      [] <<lat, lng>> = <<488566, 23522>> -> 3418        \* to (51.5, -0.1)
      [] <<lat, lng>> = <<-600000, 200000>> -> 29045     \* to (-33.9, 18.4)
      [] <<lat, lng>> = <<300000, 1200000>> -> 10331     \* to (22.3, 114.2)
      [] <<lat, lng>> = <<450000, -150000>> -> 5593      \* to (43.3, -8.4)

\* calculate_distance_to_coast: 0.0 for a place that is not ocean
calculate_distance_to_coast(lat, lng) ==
    IF is_ocean_location(lat, lng) THEN min_coastal_distance(lat, lng) ELSE 0

calculate_tsunami_risk_extreme_above_1000(lat, lng, energy) ==
    IF ~is_ocean_location(lat, lng)
    THEN [tsunami_expected |-> FALSE, risk_level |-> "NONE",
          reason |-> "Land impact - no tsunami generation",
          coastal_warnings_needed |-> FALSE, evacuation_recommended |-> FALSE]
    ELSE [tsunami_expected |-> TRUE,
          risk_level |-> IF energy > 1000 THEN "EXTREME" ELSE "HIGH",
          reason |-> "tsunami",
          distance_to_coast_km |-> calculate_distance_to_coast(lat, lng),
          coastal_warnings_needed |-> TRUE, evacuation_recommended |-> TRUE,
          estimated_arrival_time_minutes |-> calculate_distance_to_coast(lat, lng) \div 80]

\* calculate_tsunami_risk(lat, lng, asteroid), energy being
\* asteroid['energy_megatons_TNT']
calculate_tsunami_risk(lat, lng, energy) ==
    IF ~is_ocean_location(lat, lng)
    THEN [tsunami_expected |-> FALSE, risk_level |-> "NONE",
          reason |-> "Land impact - no tsunami generation",
          coastal_warnings_needed |-> FALSE, evacuation_recommended |-> FALSE]
    ELSE LET distance_to_coast == calculate_distance_to_coast(lat, lng)
             risk_level == IF energy > 100 THEN "EXTREME"
                           ELSE IF energy > 10 THEN "HIGH"
                           ELSE IF energy > 1 THEN "MEDIUM"
                           ELSE "LOW"
             evacuation == IF energy > 10 THEN TRUE
                           ELSE IF energy > 1 THEN distance_to_coast < 5000
                           ELSE FALSE
             warning == IF energy > 100
                        THEN "Catastrophic tsunami - {distance_to_coast}km to nearest coast"
                        ELSE IF energy > 10
                        THEN "Major tsunami possible - coastal areas at risk"
                        ELSE IF energy > 1
                        THEN "Moderate tsunami - monitor coastal warnings"
                        ELSE "Small waves expected - minimal coastal impact"
         IN  [tsunami_expected |-> TRUE, risk_level |-> risk_level,
              reason |-> warning,
              distance_to_coast_km |-> distance_to_coast,
              coastal_warnings_needed |-> TRUE,
              evacuation_recommended |-> evacuation,
              \* int(distance_to_coast / 8)
              estimated_arrival_time_minutes |-> distance_to_coast \div 80]

Min(a, b) == IF a <= b THEN a ELSE b

risk_levels == <<"MINIMAL", "LOW", "MEDIUM", "HIGH", "VERY_HIGH", "EXTREME">>

\* the risk from energy and distance alone, with no adjustment for location
calculate_overall_risk_level_unadjusted(energy, miss_distance_km, lat, lng) ==
    IF AuLe(miss_distance_km, 1) /\ energy > 10 THEN "EXTREME"
    ELSE IF AuLe(miss_distance_km, 5) /\ energy > 10 THEN "VERY_HIGH"
    ELSE IF energy > 100 THEN "HIGH"
    ELSE IF energy > 10 THEN "MEDIUM"
    ELSE "LOW"

\* calculate_overall_risk_level_improved(asteroid, lat, lng), energy and
\* miss_distance_km being the asteroid's fields
calculate_overall_risk_level_improved(energy, miss_distance_km, lat, lng) ==
    LET is_ocean == is_ocean_location(lat, lng)
        base_risk == IF AuLe(miss_distance_km, 1) /\ energy > 10 THEN 5
                     ELSE IF AuLe(miss_distance_km, 5) /\ energy > 10 THEN 4
                     ELSE IF energy > 100 THEN 3
                     ELSE IF energy > 10 THEN 2
                     ELSE 1
        adjusted == IF is_ocean /\ energy > 1
                    THEN IF calculate_distance_to_coast(lat, lng) < 10000
                         THEN Min(5, base_risk + 1)
                         ELSE base_risk
                    ELSE base_risk
    IN  risk_levels[Min(adjusted, 5) + 1]

\* the asteroids the hazard functions are called with
Energies == {0, 1, 2, 10, 11, 100, 101, 1001}
MissDistances == {0, 1495978, 1495979, 7479893, 7479894, 20000000}

hazard_calculate_tsunami_risk(p, energy) ==
    /\ haz' = [fn |-> "calculate_tsunami_risk",
               args |-> [lat |-> p[1], lng |-> p[2], energy |-> energy],
               out |-> calculate_tsunami_risk(p[1], p[2], energy)]
    /\ UNCHANGED <<rng, call, phys, now, resp, db>>

hazard_calculate_overall_risk_level_improved(p, energy, miss_distance_km) ==
    /\ haz' = [fn |-> "calculate_overall_risk_level_improved",
               args |-> [lat |-> p[1], lng |-> p[2], energy |-> energy,
                         miss_distance_km |-> miss_distance_km],
               out |-> calculate_overall_risk_level_improved(
                           energy, miss_distance_km, p[1], p[2])]
    /\ UNCHANGED <<rng, call, phys, now, resp, db>>

(***************************************************************************)
(* HazSpec: the hazard functions called for the places and asteroids       *)
(* above, in any order.                                                    *)
(***************************************************************************)
HazInit == RngIdle /\ phys = IdlePhys /\ haz = IdleHaz /\ SvcIdle

HazNext ==
    \/ \E p \in Locations, e \in Energies : hazard_calculate_tsunami_risk(p, e)
    \/ \E p \in Locations, e \in Energies, k \in MissDistances :
          hazard_calculate_overall_risk_level_improved(p, e, k)

HazSpec == HazInit /\ [][HazNext]_vars

(***************************************************************************)
(* DrawSpec: classify_by_id from just after its draw, for every value      *)
(* random.randint(1, total) can return.                                    *)
(***************************************************************************)
DrawInit ==
    /\ rng \in {Advance(seed(id)) : id \in Ids}
    /\ \E r \in 1..total, id \in Ids :
           call = [c \in Callers |->
                      IF c = "c1"
                      THEN [IdleCall EXCEPT !.pc = "cls_drawn", !.op = "classify_by_id",
                                            !.arg = id, !.rand_val = r]
                      ELSE IdleCall]
    /\ phys = IdlePhys
    /\ haz = IdleHaz
    /\ SvcIdle

DrawNext == \E c \in Callers : classify_by_id_return(c)

DrawSpec == DrawInit /\ [][DrawNext]_vars

(***************************************************************************)
(* The defense strategies (main.py, AsteroidDefenseStrategies).  A Python  *)
(* dict is a record whose domain is the set of its keys; years are in      *)
(* tenths, diameters in the unit of the record.  Of a catalogue entry the  *)
(* model carries the name and the development level, of an enhanced        *)
(* strategy the fields computed from the asteroid.                         *)
(***************************************************************************)
DEFENSE_METHODS ==
    [KINETIC_IMPACTOR   |-> [name |-> "Kinetic Impactor",   development_level |-> "Tested"],
     GRAVITY_TRACTOR    |-> [name |-> "Gravity Tractor",    development_level |-> "Concept"],
     NUCLEAR_DEFLECTION |-> [name |-> "Nuclear Deflection", development_level |-> "Theoretical"],
     LASER_ABLATION     |-> [name |-> "Laser Ablation",     development_level |-> "Experimental"]]

\* dict.get(key, default)
Get(dict, key, default) == IF key \in DOMAIN dict THEN dict[key] ELSE default

\* (distance_km + distance_m / 1000) / 149597870.7 <= h / 100, for
\* 0 <= distance_m < 1000; h / 100 AU is h * 1495978.707 km
AuLeMetres(distance_km, distance_m, h) ==
    LET q == distance_km - h * 1495978
    IN  IF q < 0 THEN TRUE
        ELSE IF q >= h THEN FALSE
        ELSE q * 1000 + distance_m <= h * 707

\* the cascade with every boundary in the upper bucket
estimate_time_until_impact_bounds_excluded(asteroid) ==
    LET km == asteroid.miss_distance_km
        m == Get(asteroid, "miss_distance_m", 0)
        below(h) == LET q == km - h * 1495978
                    IN  IF q < 0 THEN TRUE
                        ELSE IF q >= h THEN FALSE
                        ELSE q * 1000 + m < h * 707
    IN  IF below(1) THEN 1
        ELSE IF below(5) THEN 10
        ELSE IF below(10) THEN 50
        ELSE 100

\* the cascade with a last bucket of 15 years
estimate_time_until_impact_fifteen_years(asteroid) ==
    IF AuLe(asteroid.miss_distance_km, 1) THEN 1
    ELSE IF AuLe(asteroid.miss_distance_km, 5) THEN 10
    ELSE IF AuLe(asteroid.miss_distance_km, 10) THEN 50
    ELSE 150

\* years, in tenths, by the miss distance in AU; miss_distance_km is the
\* whole kilometres and miss_distance_m, where a record has it, the metres
\* past them
estimate_time_until_impact(asteroid) ==
    LET km == asteroid.miss_distance_km
        m == Get(asteroid, "miss_distance_m", 0)
    IN  IF AuLeMetres(km, m, 1) THEN 1
        ELSE IF AuLeMetres(km, m, 5) THEN 10
        ELSE IF AuLeMetres(km, m, 10) THEN 50
        ELSE 100

\* "SHIELD_" and the name without brackets and spaces, for the names of
\* the model
_generate_mission_name(asteroid_name) ==
    CASE asteroid_name = "(2026 AB)" -> "SHIELD_2026AB"
      [] asteroid_name = "433 Eros" -> "SHIELD_433Eros"

_assess_technology_level(development_level) ==
    CASE development_level = "Tested" -> "READY"
      [] development_level = "Experimental" -> "NEAR_TERM"
      [] development_level = "Concept" -> "MID_TERM"
      [] development_level = "Theoretical" -> "FUTURE"
      [] OTHER -> "FUTURE"

priority_factors(threat_level) ==
    CASE threat_level = "LOW" -> 1
      [] threat_level = "MEDIUM" -> 2
      [] threat_level = "HIGH" -> 3
      [] threat_level = "VERY_HIGH" -> 4
      [] threat_level = "EXTREME" -> 5
      [] OTHER -> 1

_enhance_strategy(strategy, asteroid, impact_analysis) ==
    LET diameter == asteroid.diameter_avg
        threat_level == Get(impact_analysis, "threat_level", "LOW")
    IN  [name |-> strategy.name,
         success_probability |->
             IF diameter < 100 THEN "80-95%"
             ELSE IF diameter < 500 THEN "60-80%" ELSE "30-60%",
         priority_score |-> priority_factors(threat_level),
         recommended_mission_name |-> _generate_mission_name(asteroid.name),
         required_technology_level |-> _assess_technology_level(strategy.development_level),
         international_cooperation_required |-> diameter > 200]

sort_by_priority_score_reversing(strategies) ==
    [k \in 1..Len(strategies) |-> strategies[Len(strategies) + 1 - k]]

\* list.sort(key = priority_score, reverse = True): a stable sort, the
\* elements of equal key stay in the order they had
RECURSIVE sort_by_priority_score(_)
sort_by_priority_score(strategies) ==
    IF Len(strategies) <= 1 THEN strategies
    ELSE LET top == CHOOSE i \in 1..Len(strategies) :
                        /\ \A j \in 1..Len(strategies) :
                               strategies[j].priority_score <= strategies[i].priority_score
                        /\ \A j \in 1..(i - 1) :
                               strategies[j].priority_score < strategies[i].priority_score
             rest == [k \in 1..(Len(strategies) - 1) |->
                         IF k < top THEN strategies[k] ELSE strategies[k + 1]]
         IN  <<strategies[top]>> \o sort_by_priority_score(rest)

\* strategies[:n]
Take(s, n) == SubSeq(s, 1, Min(n, Len(s)))

kinetic_rule_any_lead_time(diameter, time_until_impact) ==
    diameter < 500

kinetic_rule(diameter, time_until_impact) ==
    diameter < 500 /\ time_until_impact > 20

gravity_rule(diameter, time_until_impact) ==
    diameter < 1000 /\ time_until_impact > 100

\* the rule with CRITICAL among the levels that admit it
nuclear_rule_critical_admitted(threat_level, diameter, time_until_impact) ==
    /\ threat_level \in {"HIGH", "VERY_HIGH", "EXTREME", "CRITICAL"}
    /\ time_until_impact < 50
    /\ diameter > 200

nuclear_rule(threat_level, diameter, time_until_impact) ==
    /\ threat_level \in {"HIGH", "VERY_HIGH", "EXTREME"}
    /\ time_until_impact < 50
    /\ diameter > 200

laser_rule(spectral_type, diameter) ==
    spectral_type \in {"S-type", "M-type"} /\ diameter < 200

get_defense_strategies(asteroid_data, impact_analysis) ==
    LET diameter == asteroid_data.diameter_avg
        spectral_type == Get(asteroid_data, "spectral_type", "UNKNOWN")
        threat_level == Get(impact_analysis, "threat_level", "LOW")
        time_until_impact == estimate_time_until_impact(asteroid_data)
        enhanced(key) == <<_enhance_strategy(DEFENSE_METHODS[key], asteroid_data, impact_analysis)>>
        strategies ==
            (IF kinetic_rule(diameter, time_until_impact)
                THEN enhanced("KINETIC_IMPACTOR") ELSE <<>>)
            \o (IF gravity_rule(diameter, time_until_impact)
                THEN enhanced("GRAVITY_TRACTOR") ELSE <<>>)
            \o (IF nuclear_rule(threat_level, diameter, time_until_impact)
                THEN enhanced("NUCLEAR_DEFLECTION") ELSE <<>>)
            \o (IF laser_rule(spectral_type, diameter)
                THEN enhanced("LASER_ABLATION") ELSE <<>>)
    IN  Take(sort_by_priority_score(strategies), 3)

\* the asteroids and impact analyses the selector is called with
DefenseDiameters == {199, 200, 201, 499, 500}
DefenseDistances ==
    {0, 1495978, 1495979, 7479893, 7479894, 14959787, 14959788, 149597870}
SpectralTypes == {"S-type", "M-type", "C-type"}
ThreatLevels == {"LOW", "MEDIUM", "HIGH", "VERY_HIGH", "EXTREME", "CRITICAL"}
DefenseAsteroids ==
    [name : {"433 Eros"}, diameter_avg : DefenseDiameters,
     miss_distance_km : DefenseDistances]
    \cup [name : {"433 Eros"}, diameter_avg : DefenseDiameters,
          miss_distance_km : DefenseDistances, spectral_type : SpectralTypes]
\* miss distances a metre before, at and a metre past 0.01, 0.05 and 0.1 AU
BoundaryAsteroids ==
    [name : {"433 Eros"}, diameter_avg : {150},
     miss_distance_km : {1495978, 7479893, 14959787},
     miss_distance_m : {69, 70, 71, 534, 535, 536, 706, 707, 708}]
DefenseAnalyses == {[impact_location |-> "none"]}
                   \cup [impact_location : {"none"}, threat_level : ThreatLevels]

defense_get_defense_strategies(c, asteroid_data, impact_analysis) ==
    /\ resp' = [resp EXCEPT ![c] =
                   [fn |-> "get_defense_strategies",
                    asteroid_data |-> asteroid_data,
                    impact_analysis |-> impact_analysis,
                    out |-> get_defense_strategies(asteroid_data, impact_analysis)]]
    /\ UNCHANGED <<rng, call, phys, haz, now, db>>

defense_estimate_time_until_impact(c, asteroid) ==
    /\ resp' = [resp EXCEPT ![c] =
                   [fn |-> "estimate_time_until_impact",
                    asteroid |-> asteroid,
                    out |-> estimate_time_until_impact(asteroid)]]
    /\ UNCHANGED <<rng, call, phys, haz, now, db>>

(***************************************************************************)
(* DefSpec: one caller calls the selector and the estimate of the time     *)
(* until impact for the asteroids above, in any order.                     *)
(***************************************************************************)
DefInit == RngIdle /\ phys = IdlePhys /\ haz = IdleHaz /\ SvcIdle

DefNext ==
    \/ \E a \in DefenseAsteroids, i \in DefenseAnalyses :
          defense_get_defense_strategies("c1", a, i)
    \/ \E a \in DefenseAsteroids \cup BoundaryAsteroids :
          defense_estimate_time_until_impact("c1", a)

DefSpec == DefInit /\ [][DefNext]_vars

(***************************************************************************)
(* The cost optimizer (quantum_optimizer.py).  A datetime is a number of   *)
(* hours since the start of day 0; datetime arithmetic raises              *)
(* OverflowError outside the years 1 to 9999.  Times to impact are whole   *)
(* days.                                                                   *)
(***************************************************************************)
\* date.max.toordinal(): 9999-12-31
MaxOrdinal == 3652059

InDatetimeRange(hours) == hours >= 24 /\ hours < (MaxOrdinal + 1) * 24

\* the strategies in the order of the dict, and their costs
StrategyOrder == <<"Kinetic", "Nuclear", "Laser", "Gravity">>
DEFENSE_STRATEGIES == [Kinetic |-> 3, Nuclear |-> 8, Laser |-> 5, Gravity |-> 2]

\* min(DEFENSE_STRATEGIES, key = DEFENSE_STRATEGIES.get): the first key of
\* the least cost
MinCostStrategy ==
    LET i == CHOOSE i \in 1..Len(StrategyOrder) :
                 /\ \A j \in 1..Len(StrategyOrder) :
                        DEFENSE_STRATEGIES[StrategyOrder[i]] <= DEFENSE_STRATEGIES[StrategyOrder[j]]
                 /\ \A j \in 1..(i - 1) :
                        DEFENSE_STRATEGIES[StrategyOrder[i]] < DEFENSE_STRATEGIES[StrategyOrder[j]]
    IN  StrategyOrder[i]

\* what the imports of lines 16 to 22 leave in QISKIT_AVAILABLE: the library
\* is not installed with the service, the import fails
QiskitAvailable == {FALSE}
\* what QAOA.solve does when it is called: it raises, or it returns a vector
\* of four bits
QaoaOutcomes == {<<>>} \cup [1..4 -> {0, 1}]

solve_with_qaoa(qiskit_available, qaoa) ==
    IF ~qiskit_available
    THEN [best_strategy |-> MinCostStrategy, quantum_algorithm |-> "Classical_Optimization"]
    ELSE IF qaoa = <<>>
    THEN [best_strategy |-> MinCostStrategy, quantum_algorithm |-> "Classical_Fallback"]
    ELSE IF \E i \in 1..4 : qaoa[i] = 1
    THEN [best_strategy |-> StrategyOrder[CHOOSE i \in 1..4 :
                                /\ qaoa[i] = 1
                                /\ \A j \in 1..(i - 1) : qaoa[j] # 1],
          quantum_algorithm |-> "QAOA"]
    ELSE [best_strategy |-> MinCostStrategy, quantum_algorithm |-> "QAOA"]

\* the fields of the parameters the justification of a strategy quotes
_get_strategy_justification(strategy, asteroid_params) ==
    [template |-> strategy,
     quotes |-> [k \in (CASE strategy = "Gravity" -> {"mass", "velocity", "time_to_impact"}
                          [] strategy = "Kinetic" -> {"mass"}
                          [] strategy = "Nuclear" -> {"mass", "velocity"}
                          [] OTHER -> {})
                 |-> Get(asteroid_params, k, 0)]]

optimize_defense_strategy(asteroid_params, clock, qiskit_available, qaoa) ==
    LET required_params == {"mass", "velocity", "time_to_impact"}
        solved == solve_with_qaoa(qiskit_available, qaoa)
        planned == clock + (asteroid_params.time_to_impact - 1) * 24
        fallback_planned == clock + (Get(asteroid_params, "time_to_impact", 30) - 1) * 24
    IN  IF required_params \subseteq DOMAIN asteroid_params /\ InDatetimeRange(planned)
        THEN [raised |-> "none",
              best_strategy |-> solved.best_strategy,
              execution_time |-> planned,
              optimization_details |-> [quantum_algorithm |-> solved.quantum_algorithm],
              strategy_justification |->
                  _get_strategy_justification(solved.best_strategy, asteroid_params)]
        ELSE IF InDatetimeRange(fallback_planned)
        THEN [raised |-> "none",
              best_strategy |-> MinCostStrategy,
              execution_time |-> fallback_planned,
              optimization_details |-> [fallback_used |-> TRUE],
              strategy_justification |-> [template |-> "Fallback", quotes |-> <<>>]]
        ELSE [raised |-> "OverflowError"]

\* the parameters the optimizer is called with
OptimizerTimes == {0, 30, 2900000, 3000000}
OptimizerParams ==
    [mass : {1000, 2000}, velocity : {20}, time_to_impact : OptimizerTimes]
    \cup [velocity : {20}, time_to_impact : OptimizerTimes]
    \cup [mass : {1000}, time_to_impact : OptimizerTimes]
    \cup [mass : {1000}, velocity : {20}]

quantum_optimize_defense_strategy(c, asteroid_params, qiskit_available, qaoa) ==
    /\ resp' = [resp EXCEPT ![c] =
                   [fn |-> "optimize_defense_strategy",
                    asteroid_params |-> asteroid_params,
                    clock |-> now,
                    out |-> optimize_defense_strategy(asteroid_params, now,
                                                      qiskit_available, qaoa)]]
    /\ UNCHANGED <<rng, call, phys, haz, now, db>>

\* time passes
clock_advance ==
    /\ \E later \in Clock : later > now /\ now' = later
    /\ UNCHANGED <<rng, call, phys, haz, resp, db>>

(***************************************************************************)
(* OptSpec: two callers call the optimizer while time passes.              *)
(***************************************************************************)
OptInit == RngIdle /\ phys = IdlePhys /\ haz = IdleHaz /\ SvcIdle

OptNext ==
    \/ \E c \in Callers, p \in OptimizerParams, a \in QiskitAvailable, q \in QaoaOutcomes :
           quantum_optimize_defense_strategy(c, p, a, q)
    \/ clock_advance

OptSpec == OptInit /\ [][OptNext]_vars

(***************************************************************************)
(* The impact date calculator (main.py, ImpactDateCalculator).  A text     *)
(* that may or may not be a date is a record: a well-formed '%Y-%m-%d'     *)
(* date carries its day number, any other text only its letters.  A call   *)
(* that can raise returns Raise(exception) or Return(value).  Durations    *)
(* are kept to the hour, and one computation reads one hour of the clock.  *)
(***************************************************************************)
Raise(exception) == [raised |-> exception]
Return(value) == [raised |-> "none", value |-> value]

Max(a, b) == IF a >= b THEN a ELSE b

\* datetime.strftime('%Y-%m-%d'): the day, the hour is dropped
strftime(dt) == DateStr(dt \div 24)
\* datetime.strptime(s, '%Y-%m-%d'): midnight of the day, or ValueError
strptime(s) ==
    IF "ordinal" \in DOMAIN s THEN Return(s.ordinal * 24) ELSE Raise("ValueError")

\* days
_estimate_orbital_period(distance_km) ==
    IF AuLe(distance_km, 10) THEN 365
    ELSE IF AuLe(distance_km, 100) THEN 365 * 2
    ELSE 365 * 5

\* tenths
_calculate_perturbation_factor(distance_km) ==
    IF AuLe(distance_km, 10) THEN 8
    ELSE IF AuLe(distance_km, 100) THEN 5
    ELSE IF AuLe(distance_km, 500) THEN 3
    ELSE 1

_classify_perturbation_strength(factor10) ==
    IF factor10 > 7 THEN "VERY_STRONG"
    ELSE IF factor10 > 5 THEN "STRONG"
    ELSE IF factor10 > 3 THEN "MODERATE"
    ELSE "WEAK"

\* the resonances with Earth, in the order they are tried, and the miss
\* distances in kilometres whose distance in AU is within 0.05 of
\* (earth_years / asteroid_years) ^ (2/3), where the strength is 0.9
common_resonances ==
    <<[earth_years |-> 1, asteroid_years |-> 1, from_km |-> 142117978, to_km |-> 157077764],
      [earth_years |-> 2, asteroid_years |-> 1, from_km |-> 229991924, to_km |-> 244951710],
      [earth_years |-> 3, asteroid_years |-> 2, from_km |-> 188548773, to_km |-> 203508559],
      [earth_years |-> 4, asteroid_years |-> 3, from_km |-> 173745021, to_km |-> 188704807]>>

\* the strong resonances, all of strength 0.9, in the order they are tried
_find_orbital_resonances(distance_km) ==
    SelectSeq([i \in 1..Len(common_resonances) |->
                  [earth_years |-> common_resonances[i].earth_years,
                   asteroid_years |-> common_resonances[i].asteroid_years,
                   strong |-> /\ common_resonances[i].from_km <= distance_km
                              /\ distance_km <= common_resonances[i].to_km,
                   days_until_resonance |-> common_resonances[i].earth_years * 365]],
              LAMBDA r : r.strong)

\* what a scenario carries once its impact date is known
Scenario(type, impact_date, clock, confidence, probability) ==
    IF ~InDatetimeRange(impact_date) THEN Raise("OverflowError")
    ELSE Return([type |-> type,
                 estimated_impact_date |-> strftime(impact_date),
                 days_until_impact |-> Max(0, (impact_date - clock) \div 24),
                 confidence |-> confidence,
                 probability |-> probability])

\* a scenario with the fields only it has
With(scenario, fields) ==
    IF scenario.raised = "none" THEN Return(scenario.value @@ fields) ELSE scenario

_calculate_direct_impact(distance_km, velocity_km_s, approach_dt, clock) ==
    IF AuLe(distance_km, 1)
    THEN IF velocity_km_s = 0 THEN Raise("ZeroDivisionError")
         ELSE Scenario("DIRECT_COLLISION",
                       approach_dt + distance_km \div (velocity_km_s * 3600),
                       clock, "HIGH", "0.1%-1%")
    ELSE Scenario("DIRECT_COLLISION",
                  approach_dt + _estimate_orbital_period(distance_km) * 24,
                  clock, "LOW", "<0.1%")

_calculate_perturbed_impact(distance_km, velocity_km_s, approach_dt, clock) ==
    LET perturbation_factor == _calculate_perturbation_factor(distance_km)
        strength == [perturbation_strength |->
                        _classify_perturbation_strength(perturbation_factor)]
    IN  IF perturbation_factor > 1
        THEN With(Scenario("GRAVITATIONAL_PERTURBATION",
                           approach_dt + _estimate_orbital_period(distance_km) * 2 * 24,
                           clock, "MEDIUM", "0.01%-0.1%"), strength)
        ELSE With(Scenario("GRAVITATIONAL_PERTURBATION",
                           approach_dt + 365 * 10 * 24,
                           clock, "LOW", "0.01%-0.1%"), strength)

_calculate_resonant_impact(distance_km, velocity_km_s, approach_dt, clock) ==
    LET resonance_periods == _find_orbital_resonances(distance_km)
    IN  IF resonance_periods # <<>>
        THEN With(Scenario("ORBITAL_RESONANCE",
                           approach_dt + resonance_periods[1].days_until_resonance * 24,
                           clock, "MEDIUM", "0.001%-0.01%"),
                  [resonance_strength |-> "STRONG"])
        ELSE With(Scenario("ORBITAL_RESONANCE",
                           approach_dt + 365 * 20 * 24,
                           clock, "LOW", "0.001%-0.01%"),
                  [resonance_strength |-> "WEAK"])

_determine_most_likely_scenario_by_confidence(direct, perturbed, resonant, distance_km) ==
    IF direct.confidence = "HIGH" THEN direct
    ELSE IF perturbed.confidence = "MEDIUM" THEN perturbed
    ELSE resonant

_determine_most_likely_scenario(direct, perturbed, resonant, distance_km) ==
    IF AuLe(distance_km, 1) THEN direct
    ELSE IF AuLe(distance_km, 5) THEN perturbed
    ELSE resonant

_calculate_impact_probability(distance_km) ==
    IF distance_km <= 149597 THEN "1-10%"
    ELSE IF AuLe(distance_km, 1) THEN "0.1-1%"
    ELSE IF AuLe(distance_km, 5) THEN "0.01-0.1%"
    ELSE "<0.01%"

_get_monitoring_recommendation(distance_km) ==
    IF AuLe(distance_km, 1) THEN "CONTINUOUS_MONITORING"
    ELSE IF AuLe(distance_km, 5) THEN "ENHANCED_MONITORING"
    ELSE "STANDARD_MONITORING"

\* distance_au is carried as the kilometres it is computed from
_calculate_impact_scenarios(distance_km, velocity_km_s, approach_date, clock) ==
    LET parsed == strptime(approach_date)
        approach_dt == IF parsed.raised = "none" THEN parsed.value ELSE clock
        direct_impact == _calculate_direct_impact(distance_km, velocity_km_s, approach_dt, clock)
        perturbed_impact == _calculate_perturbed_impact(distance_km, velocity_km_s, approach_dt, clock)
        resonant_impact == _calculate_resonant_impact(distance_km, velocity_km_s, approach_dt, clock)
    IN  IF direct_impact.raised # "none" THEN direct_impact
        ELSE IF perturbed_impact.raised # "none" THEN perturbed_impact
        ELSE IF resonant_impact.raised # "none" THEN resonant_impact
        ELSE Return(
            [current_approach_date |-> approach_date,
             distance_au |-> distance_km,
             velocity_km_s |-> velocity_km_s,
             scenarios |-> [direct_impact |-> direct_impact.value,
                            gravitational_perturbation |-> perturbed_impact.value,
                            orbital_resonance |-> resonant_impact.value],
             most_likely_scenario |->
                 _determine_most_likely_scenario(direct_impact.value, perturbed_impact.value,
                                                 resonant_impact.value, distance_km),
             impact_probability |-> _calculate_impact_probability(distance_km),
             monitoring_recommendation |-> _get_monitoring_recommendation(distance_km)])

_get_default_impact_analysis(clock) ==
    [current_approach_date |-> strftime(clock),
     distance_au |-> 0,
     velocity_km_s |-> 0,
     scenarios |-> [direct_impact |->
                       [type |-> "UNKNOWN",
                        estimated_impact_date |-> Str("Unknown"),
                        days_until_impact |-> 0,
                        confidence |-> "LOW",
                        probability |-> "Unknown"]],
     most_likely_scenario |-> Str("UNKNOWN"),
     impact_probability |-> "Unknown",
     monitoring_recommendation |-> "DATA_REQUIRED"]

\* the body of the try
calculate_impact_date_try(asteroid_data, clock) ==
    IF {"miss_distance_km", "velocity_km_s"} \subseteq DOMAIN asteroid_data
    THEN _calculate_impact_scenarios(asteroid_data.miss_distance_km,
                                     asteroid_data.velocity_km_s,
                                     Get(asteroid_data, "date", strftime(clock)), clock)
    ELSE Raise("KeyError")

calculate_impact_date_no_except(asteroid_data, clock) ==
    calculate_impact_date_try(asteroid_data, clock)

\* the whole body is under try / except Exception
calculate_impact_date(asteroid_data, clock) ==
    LET impact_analysis == calculate_impact_date_try(asteroid_data, clock)
    IN  IF impact_analysis.raised = "none"
        THEN impact_analysis
        ELSE Return(_get_default_impact_analysis(clock))

calculate_next_observation_window(asteroid) ==
    IF "miss_distance_km" \notin DOMAIN asteroid THEN Raise("KeyError")
    ELSE IF AuLe(asteroid.miss_distance_km, 1)
    THEN Return([next_window |-> "IMMEDIATE", observation_priority |-> "HIGHEST"])
    ELSE IF AuLe(asteroid.miss_distance_km, 5)
    THEN Return([next_window |-> "Within 7 days", observation_priority |-> "HIGH"])
    ELSE Return([next_window |-> "Within 30 days", observation_priority |-> "MEDIUM"])

\* most_likely.get raises AttributeError when most_likely is a str
calculate_defense_timeline(impact_analysis) ==
    LET most_likely == impact_analysis.most_likely_scenario
        days_until_impact == Get(most_likely, "days_until_impact", 0)
    IN  IF DOMAIN most_likely = {"text"} THEN Raise("AttributeError")
        ELSE IF days_until_impact <= 30
        THEN Return([feasibility |-> "LIMITED", recommended_strategy |-> "NUCLEAR_DEFLECTION"])
        ELSE IF days_until_impact <= 365
        THEN Return([feasibility |-> "MODERATE", recommended_strategy |-> "KINETIC_IMPACTOR"])
        ELSE IF days_until_impact <= 3650
        THEN Return([feasibility |-> "HIGH", recommended_strategy |-> "GRAVITY_TRACTOR"])
        ELSE Return([feasibility |-> "VERY_HIGH", recommended_strategy |-> "Multiple approaches"])

\* what db.get_asteroid_by_id returns for an id storage has no row of
None == [py |-> "None"]

\* the endpoint /asteroids/{asteroid_id}/impact-date, given what storage
\* returned for the id; an exception that leaves the handler is a 500
get_asteroid_impact_date(asteroid, clock) ==
    IF asteroid = None THEN [status |-> 404, raised |-> "HTTPException"]
    ELSE LET impact_analysis == calculate_impact_date(asteroid, clock)
             window == calculate_next_observation_window(asteroid)
             timeline == calculate_defense_timeline(impact_analysis.value)
         IN  IF impact_analysis.raised # "none"
             THEN [status |-> 500, raised |-> impact_analysis.raised]
             ELSE IF "name" \notin DOMAIN asteroid
             THEN [status |-> 500, raised |-> "KeyError"]
             ELSE IF window.raised # "none"
             THEN [status |-> 500, raised |-> window.raised]
             ELSE IF timeline.raised # "none"
             THEN [status |-> 500, raised |-> timeline.raised]
             ELSE [status |-> 200, raised |-> "none",
                   impact_date_analysis |-> impact_analysis.value,
                   next_observation_window |-> window.value,
                   defense_timeline |-> timeline.value]

\* the asteroid records the calculator is called with: 0.001, 0.01, 0.03,
\* 0.07, 1.0 (a resonance) and 5.3 AU; 2026-10-30, 9999-06-01 and a text
\* that is no date; records that lack a field
ImpactDistances == {144000, 1440000, 5000000, 10000000, 150000000, 800000000}
ImpactVelocities == {0, 20}
ImpactDates == {DateStr(739919), DateStr(3651846), Str("30/10/2026")}
ImpactAsteroids ==
    [name : {"(2026 AB)"}, miss_distance_km : ImpactDistances,
     velocity_km_s : ImpactVelocities, date : ImpactDates]
    \cup [name : {"(2026 AB)"}, miss_distance_km : ImpactDistances,
          velocity_km_s : ImpactVelocities]
    \cup [name : {"(2026 AB)"}, miss_distance_km : ImpactDistances,
          date : {DateStr(739919)}]
    \cup [name : {"(2026 AB)"}, velocity_km_s : {20}, date : {DateStr(739919)}]

impact_calculate_impact_date(c, asteroid_data) ==
    /\ resp' = [resp EXCEPT ![c] =
                   [fn |-> "calculate_impact_date",
                    asteroid_data |-> asteroid_data,
                    clock |-> now,
                    out |-> calculate_impact_date(asteroid_data, now)]]
    /\ UNCHANGED <<rng, call, phys, haz, now, db>>

\* calculate_defense_timeline on what calculate_impact_date returned
impact_calculate_defense_timeline(c, asteroid_data) ==
    /\ calculate_impact_date(asteroid_data, now).raised = "none"
    /\ resp' = [resp EXCEPT ![c] =
                   [fn |-> "calculate_defense_timeline",
                    asteroid_data |-> asteroid_data,
                    clock |-> now,
                    impact_analysis |-> calculate_impact_date(asteroid_data, now).value,
                    out |-> calculate_defense_timeline(
                                calculate_impact_date(asteroid_data, now).value)]]
    /\ UNCHANGED <<rng, call, phys, haz, now, db>>

api_get_asteroid_impact_date(c, asteroid) ==
    /\ resp' = [resp EXCEPT ![c] =
                   [fn |-> "get_asteroid_impact_date",
                    asteroid |-> asteroid,
                    clock |-> now,
                    out |-> get_asteroid_impact_date(asteroid, now)]]
    /\ UNCHANGED <<rng, call, phys, haz, now, db>>

(***************************************************************************)
(* ImpSpec: one caller calls the calculator, the timeline and the endpoint *)
(* for the records above while time passes.                                *)
(***************************************************************************)
ImpInit == RngIdle /\ phys = IdlePhys /\ haz = IdleHaz /\ SvcIdle

ImpNext ==
    \/ \E a \in ImpactAsteroids : impact_calculate_impact_date("c1", a)
    \/ \E a \in ImpactAsteroids : impact_calculate_defense_timeline("c1", a)
    \/ \E a \in ImpactAsteroids \cup {None} : api_get_asteroid_impact_date("c1", a)
    \/ clock_advance

ImpSpec == ImpInit /\ [][ImpNext]_vars

(***************************************************************************)
(* ImpTwoSpec: two callers have records with a well-formed date computed   *)
(* while time passes.                                                      *)
(***************************************************************************)
DatedAsteroids ==
    [name : {"(2026 AB)"}, miss_distance_km : {1440000, 5000000, 150000000},
     velocity_km_s : {20}, date : {DateStr(739919)}]

ImpTwoNext ==
    \/ \E c \in Callers, a \in DatedAsteroids : impact_calculate_impact_date(c, a)
    \/ clock_advance

ImpTwoSpec == ImpInit /\ [][ImpTwoNext]_vars

(***************************************************************************)
(* The collaborators over HTTP (location_analyzer.py, usgs_analyzer.py).   *)
(* requests.get either raises or returns a response with a status code and *)
(* a body; response.json() raises on a body that is not JSON.  Of a JSON    *)
(* object the model keeps the keys the code reads.                         *)
(***************************************************************************)
\* requests.get raises
FailedRequests == {[raises |-> "ConnectionError"], [raises |-> "Timeout"]}

\* the bodies of the reverse geocoder: not JSON, a JSON list, an object
\* without an address, objects with the keys of their address
GeocoderBodies ==
    {[json |-> "invalid"], [json |-> "list"], [json |-> "object", data |-> [error |-> "x"]]}
    \cup {[json |-> "object", data |-> [address |-> keys]] :
              keys \in {{}, {"city"}, {"town"}, {"village"}, {"suburb"}, {"country"},
                        {"state"}, {"city", "country"}, {"village", "country"},
                        {"suburb", "town"}}}
GeocoderReplies ==
    FailedRequests \cup [status_code : {200, 404, 503}, body : GeocoderBodies]

\* response.json()
json(response) ==
    IF response.body.json = "invalid" THEN Raise("JSONDecodeError")
    ELSE Return(response.body)

\* the requests get_location_type sends to the reverse geocoder: none for
\* a point of the ocean boxes, one requests.get otherwise
get_location_type_requests(lat, lng) ==
    IF is_ocean_location(lat, lng) THEN <<>>
    ELSE <<[url |-> "https://nominatim.openstreetmap.org/reverse",
            params |-> [lat |-> lat, lon |-> lng, format |-> "json"]]>>

\* the address mapped with the country looked at before the city
get_location_type_try_country_first(lat, lng, reply) ==
    IF is_ocean_location(lat, lng) THEN Return("ocean")
    ELSE IF "raises" \in DOMAIN reply THEN Raise(reply.raises)
    ELSE IF reply.status_code = 200
    THEN LET data == json(reply)
             address == Get(data.value.data, "address", {})
         IN  IF data.raised # "none" THEN data
             ELSE IF data.value.json # "object" THEN Raise("AttributeError")
             ELSE IF "country" \in address THEN Return("rural")
             ELSE IF "city" \in address \/ "town" \in address THEN Return("urban_high")
             ELSE IF "village" \in address \/ "suburb" \in address THEN Return("urban_medium")
             ELSE Return("unknown")
    ELSE Return("unknown")

\* the body of the try
get_location_type_try(lat, lng, reply) ==
    IF is_ocean_location(lat, lng) THEN Return("ocean")
    ELSE IF "raises" \in DOMAIN reply THEN Raise(reply.raises)
    ELSE IF reply.status_code = 200
    THEN LET data == json(reply)
             address == Get(data.value.data, "address", {})
         IN  IF data.raised # "none" THEN data
             ELSE IF data.value.json # "object" THEN Raise("AttributeError")
             ELSE IF "city" \in address \/ "town" \in address THEN Return("urban_high")
             ELSE IF "village" \in address \/ "suburb" \in address THEN Return("urban_medium")
             ELSE IF "country" \in address THEN Return("rural")
             ELSE Return("unknown")
    ELSE Return("unknown")

get_location_type_no_except(lat, lng, reply) ==
    get_location_type_try(lat, lng, reply)

\* except Exception: return "unknown"
get_location_type(lat, lng, reply) ==
    LET location_type == get_location_type_try(lat, lng, reply)
    IN  IF location_type.raised = "none" THEN location_type ELSE Return("unknown")

location_get_location_type(c, p, reply) ==
    /\ resp' = [resp EXCEPT ![c] =
                   [fn |-> "get_location_type",
                    lat |-> p[1], lng |-> p[2],
                    reply |-> reply,
                    requests |-> get_location_type_requests(p[1], p[2]),
                    out |-> get_location_type(p[1], p[2], reply)]]
    /\ UNCHANGED <<rng, call, phys, haz, now, db>>

(***************************************************************************)
(* GeoSpec: one caller asks for the type of the places above, the reverse  *)
(* geocoder answering in any of the ways above.                            *)
(***************************************************************************)
GeoInit == RngIdle /\ phys = IdlePhys /\ haz = IdleHaz /\ SvcIdle

GeoNext ==
    \E p \in Locations, reply \in GeocoderReplies :
        location_get_location_type("c1", p, reply)

GeoSpec == GeoInit /\ [][GeoNext]_vars

(***************************************************************************)
(* The seismic feed (usgs_analyzer.py).  Magnitudes are in tenths, the     *)
(* time of an earthquake is in hours like the clock.                       *)
(***************************************************************************)
\* the earthquakes of the feed: a recent one of magnitude 4.6, a recent one
\* of 7.2, one of 5.8 from before the last three years, and a feature
\* without properties; the average of any two of them is a whole number of
\* tenths
Feature(mag10, time) ==
    [properties |-> [mag |-> mag10, time |-> time], geometry |-> [coordinates |-> <<0, 0, 10>>]]
FeedFeatures ==
    {Feature(46, 739800 * 24), Feature(72, 739000 * 24), Feature(58, 738000 * 24),
     [geometry |-> [coordinates |-> <<0, 0, 10>>]]}
FeedBodies ==
    {[json |-> "invalid"], [json |-> "list"], [json |-> "object", data |-> [error |-> "x"]]}
    \cup {[json |-> "object", data |-> [features |-> fs]] :
              fs \in {<<>>} \cup {<<f>> : f \in FeedFeatures}
                     \cup {<<f, g>> : f \in FeedFeatures, g \in FeedFeatures}}
FeedReplies == FailedRequests \cup [status_code : {200, 503}, body : FeedBodies]

\* the loop over data.get('features', [])[:20]
RECURSIVE earthquakes_of(_)
earthquakes_of(features) ==
    IF features = <<>> THEN Return(<<>>)
    ELSE IF "properties" \notin DOMAIN Head(features) THEN Raise("KeyError")
    ELSE LET rest == earthquakes_of(Tail(features))
             props == Head(features).properties
             coords == Head(features).geometry.coordinates
         IN  IF rest.raised # "none" THEN rest
             ELSE Return(<<[magnitude |-> props.mag, time |-> props.time,
                            latitude |-> coords[2], longitude |-> coords[1],
                            depth_km |-> coords[3],
                            tsunami_warning |-> Get(props, "tsunami", 0),
                            significance |-> Get(props, "sig", 0)]>> \o rest.value)

\* the body of the try
get_earthquakes_near_location_try(lat, lng, radius_km, reply) ==
    IF "raises" \in DOMAIN reply THEN Raise(reply.raises)
    ELSE LET data == json(reply)
         IN  IF data.raised # "none" THEN data
             ELSE IF data.value.json # "object" THEN Raise("AttributeError")
             ELSE earthquakes_of(Take(Get(data.value.data, "features", <<>>), 20))

\* except Exception: return []
get_earthquakes_near_location(lat, lng, radius_km, reply) ==
    LET earthquakes == get_earthquakes_near_location_try(lat, lng, radius_km, reply)
    IN  IF earthquakes.raised = "none" THEN earthquakes.value ELSE <<>>

get_hazard_description(risk_level) ==
    CASE risk_level = "very_high" -> "Active fault zone"
      [] risk_level = "high" -> "Frequent seismic activity"
      [] risk_level = "medium" -> "Moderate seismic activity"
      [] risk_level = "low" -> "Stable area"
      [] OTHER -> "Unknown"

RECURSIVE sum_magnitude(_)
sum_magnitude(earthquakes) ==
    IF earthquakes = <<>> THEN 0
    ELSE earthquakes[1].magnitude + sum_magnitude(Tail(earthquakes))

RECURSIVE max_magnitude(_)
max_magnitude(earthquakes) ==
    IF Len(earthquakes) = 1 THEN earthquakes[1].magnitude
    ELSE Max(earthquakes[1].magnitude, max_magnitude(Tail(earthquakes)))

calculate_seismic_risk(lat, lng, reply, clock) ==
    LET earthquakes == get_earthquakes_near_location(lat, lng, 300, reply)
        max_mag == max_magnitude(earthquakes)
        three_years_ago == clock - 3 * 365 * 24
        recent_quakes == Cardinality({i \in 1..Len(earthquakes) :
                                         earthquakes[i].time > three_years_ago})
        risk_level == IF max_mag > 70 \/ recent_quakes > 15 THEN "very_high"
                      ELSE IF max_mag > 65 \/ recent_quakes > 8 THEN "high"
                      ELSE IF max_mag > 55 \/ recent_quakes > 3 THEN "medium"
                      ELSE "low"
    IN  IF earthquakes = <<>>
        THEN [risk_level |-> "low",
              earthquakes_count |-> 0,
              max_magnitude |-> 0,
              confidence |-> "high",
              message |-> "Seismically stable area"]
        ELSE [risk_level |-> risk_level,
              earthquakes_count |-> Len(earthquakes),
              max_magnitude |-> max_mag,
              average_magnitude |-> sum_magnitude(earthquakes) \div Len(earthquakes),
              recent_activity |-> recent_quakes,
              seismic_hazard |-> get_hazard_description(risk_level)]

usgs_get_earthquakes_near_location(c, p, reply) ==
    /\ resp' = [resp EXCEPT ![c] =
                   [fn |-> "get_earthquakes_near_location",
                    lat |-> p[1], lng |-> p[2],
                    reply |-> reply,
                    out |-> get_earthquakes_near_location(p[1], p[2], 500, reply)]]
    /\ UNCHANGED <<rng, call, phys, haz, now, db>>

usgs_calculate_seismic_risk(c, p, reply) ==
    /\ resp' = [resp EXCEPT ![c] =
                   [fn |-> "calculate_seismic_risk",
                    lat |-> p[1], lng |-> p[2],
                    reply |-> reply,
                    earthquakes |-> get_earthquakes_near_location(p[1], p[2], 300, reply),
                    out |-> calculate_seismic_risk(p[1], p[2], reply, now)]]
    /\ UNCHANGED <<rng, call, phys, haz, now, db>>

(***************************************************************************)
(* UsgsSpec: one caller asks for the earthquakes and the seismic risk of   *)
(* two places, the feed answering in any of the ways above.                *)
(***************************************************************************)
FeedLocations == {<<407128, -740060>>, <<489000, 23000>>}

UsgsInit == RngIdle /\ phys = IdlePhys /\ haz = IdleHaz /\ SvcIdle

UsgsNext ==
    \/ \E p \in FeedLocations, reply \in FeedReplies :
           usgs_get_earthquakes_near_location("c1", p, reply)
    \/ \E p \in FeedLocations, reply \in FeedReplies :
           usgs_calculate_seismic_risk("c1", p, reply)

UsgsSpec == UsgsInit /\ [][UsgsNext]_vars

(***************************************************************************)
(* The endpoints that take an asteroid id (main.py).  Of the answer of a   *)
(* handler the model keeps the status and, in order, the calls the handler *)
(* made after it asked storage for the row; an exception that leaves a     *)
(* handler is a 500.                                                       *)
(***************************************************************************)
\* AsteroidDB.get_asteroid_by_id: the row as a dict, or None
db_get_asteroid_by_id(asteroid_id) ==
    IF \E row \in db : row.id = asteroid_id
    THEN CHOOSE row \in db : row.id = asteroid_id
    ELSE None

NotFound == [status |-> 404, calls |-> <<>>]
Answered(calls) == [status |-> 200, calls |-> calls]
Failed(calls) == [status |-> 500, calls |-> calls]

\* /asteroids/{asteroid_id}/impact-date
handle_get_asteroid_impact_date(asteroid_id, clock) ==
    LET asteroid == db_get_asteroid_by_id(asteroid_id)
        answer == get_asteroid_impact_date(asteroid, clock)
        calls == <<"impact_calculator.calculate_impact_date",
                   "calculate_next_observation_window",
                   "calculate_defense_timeline">>
    IN  IF answer.status = 404 THEN NotFound
        ELSE IF answer.status = 200 THEN Answered(calls)
        ELSE Failed(calls)

\* /asteroids/impact/{asteroid_id}, the handler of line 621
get_impact_analysis_with_dates(asteroid_id, clock) ==
    LET asteroid == db_get_asteroid_by_id(asteroid_id)
        impact_date_analysis == calculate_impact_date(asteroid, clock).value
        timeline == calculate_defense_timeline(impact_date_analysis)
        calls == <<"impact_calculator.calculate_impact_date",
                   "generate_impact_site",
                   "usgs_analyzer.calculate_seismic_risk",
                   "physics.calculate_mass",
                   "physics.calculate_kinetic_energy",
                   "physics.calculate_impact_effects",
                   "location_analyzer.analyze_impact",
                   "calculate_defense_timeline">>
    IN  IF asteroid = None THEN NotFound
        ELSE IF ~AuLe(asteroid.miss_distance_km, 5)
        THEN Answered(<<"impact_calculator.calculate_impact_date">>)
        ELSE IF DOMAIN impact_date_analysis.most_likely_scenario = {"text"}
        THEN Failed(SubSeq(calls, 1, 7))
        ELSE IF timeline.raised # "none" THEN Failed(calls)
        ELSE Answered(calls \o <<"generate_emergency_recommendations">>)

\* /asteroids/{asteroid_id}
get_asteroid_by_id(asteroid_id) ==
    LET asteroid == db_get_asteroid_by_id(asteroid_id)
    IN  IF asteroid = None THEN NotFound
        ELSE Answered(<<"physics.calculate_mass",
                        "physics.calculate_kinetic_energy",
                        "asteroid_classifier.classify_asteroid",
                        "defense_strategies.get_defense_strategies",
                        "classify_impact_energy",
                        "calculate_risk_score",
                        "defense_strategies.estimate_time_until_impact">>)

\* /asteroids/{asteroid_id}/quantum-defense
get_quantum_defense_strategy(asteroid_id, asteroid_params, clock) ==
    LET asteroid == db_get_asteroid_by_id(asteroid_id)
        optimization_result == optimize_defense_strategy(asteroid_params, clock, FALSE, <<>>)
    IN  IF asteroid = None THEN NotFound
        ELSE IF optimization_result.raised # "none"
        THEN Failed(<<"quantum_optimizer.optimize_defense_strategy">>)
        ELSE Answered(<<"quantum_optimizer.optimize_defense_strategy">>)

\* /asteroids/impact/{asteroid_id}, the handler of line 1825
get_impact_analysis(asteroid_id) ==
    LET asteroid == db_get_asteroid_by_id(asteroid_id)
    IN  IF asteroid = None THEN NotFound
        ELSE IF ~AuLe(asteroid.miss_distance_km, 5) THEN Answered(<<>>)
        ELSE Answered(<<"generate_impact_site",
                        "usgs_analyzer.calculate_seismic_risk",
                        "physics.calculate_mass",
                        "physics.calculate_kinetic_energy",
                        "physics.calculate_impact_effects",
                        "location_analyzer.analyze_impact",
                        "generate_emergency_recommendations">>)

get_natural_hazards_analysis_site_first(asteroid_id) ==
    Answered(<<"generate_impact_site">>)

\* /asteroids/{asteroid_id}/natural-hazards
get_natural_hazards_analysis(asteroid_id) ==
    LET asteroid == db_get_asteroid_by_id(asteroid_id)
        site == SiteOf(asteroid_id)
        is_ocean == is_ocean_location(site[1], site[2])
    IN  IF asteroid = None THEN NotFound
        ELSE Answered(
            <<"generate_impact_site", "location_analyzer.is_ocean_location",
              "assess_coastal_impact", "identify_inundation_zones">>
            \o (IF is_ocean
                THEN <<"assess_coastal_infrastructure", "check_nearby_nuclear_plants">>
                ELSE <<"assess_wildfire_risk", "assess_landslide_risk",
                       "estimate_infrastructure_impact", "check_nearby_nuclear_plants">>)
            \o <<"usgs_analyzer.calculate_seismic_risk", "calculate_impact_induced_quakes",
                 "calculate_ground_shaking_intensity", "calculate_shaking_radius",
                 "get_nearby_volcanoes", "assess_volcanic_trigger_risk", "estimate_ash_fall",
                 "calculate_tsunami_risk", "estimate_tsunami_wave_height",
                 "calculate_shockwave_radius", "calculate_heat_radius",
                 "estimate_debris_cloud", "calculate_overall_risk_level_improved",
                 "identify_primary_hazard", "get_evacuation_zones_improved">>)

Endpoints == {"impact-date", "impact-with-dates", "asteroid", "impact", "natural-hazards"}

\* a request to one of the endpoints without parameters
api_request(c, endpoint, asteroid_id) ==
    /\ resp' = [resp EXCEPT ![c] =
                   [fn |-> endpoint,
                    asteroid_id |-> asteroid_id,
                    out |-> CASE endpoint = "impact-date" ->
                                     handle_get_asteroid_impact_date(asteroid_id, now)
                              [] endpoint = "impact-with-dates" ->
                                     get_impact_analysis_with_dates(asteroid_id, now)
                              [] endpoint = "asteroid" -> get_asteroid_by_id(asteroid_id)
                              [] endpoint = "impact" -> get_impact_analysis(asteroid_id)
                              [] endpoint = "natural-hazards" ->
                                     get_natural_hazards_analysis(asteroid_id)]]
    /\ UNCHANGED <<rng, call, phys, haz, now, db>>

api_quantum_defense(c, asteroid_id, asteroid_params) ==
    /\ resp' = [resp EXCEPT ![c] =
                   [fn |-> "quantum-defense",
                    asteroid_id |-> asteroid_id,
                    asteroid_params |-> asteroid_params,
                    out |-> get_quantum_defense_strategy(asteroid_id, asteroid_params, now)]]
    /\ UNCHANGED <<rng, call, phys, haz, now, db>>

(***************************************************************************)
(* ApiSpec: one caller requests the endpoints for ids storage has and ids  *)
(* it has not, while time passes.                                          *)
(***************************************************************************)
QueryParams == [mass : {1000}, velocity : {20}, time_to_impact : OptimizerTimes]

ApiInit == RngIdle /\ phys = IdlePhys /\ haz = IdleHaz /\ SvcIdle

ApiNext ==
    \/ \E e \in Endpoints, id \in Ids : api_request("c1", e, id)
    \/ \E id \in Ids, p \in QueryParams : api_quantum_defense("c1", id, p)
    \/ clock_advance

ApiSpec == ApiInit /\ [][ApiNext]_vars

(***************************************************************************)
(* The ocean test called on its own (location_analyzer.py).  The latitudes *)
(* and longitudes are the ends of the valid range and the values on, just  *)
(* inside and just outside every edge of the three boxes.                  *)
(***************************************************************************)
OceanLats ==
    {-900000, -600001, -600000, -599999, 0, 299999, 300000, 300001,
     599999, 600000, 600001, 900000}
OceanLngs ==
    {-1800000, -600001, -600000, -599999, 199999, 200000, 200001,
     1199999, 1200000, 1200001, 1800000}

location_is_ocean_location(c, lat, lng) ==
    /\ resp' = [resp EXCEPT ![c] =
                   [fn |-> "is_ocean_location", lat |-> lat, lng |-> lng,
                    out |-> is_ocean_location(lat, lng)]]
    /\ UNCHANGED <<rng, call, phys, haz, now, db>>

(***************************************************************************)
(* OceanSpec: the callers ask, in any order, whether the points above are  *)
(* ocean.                                                                  *)
(***************************************************************************)
OceanInit == RngIdle /\ phys = IdlePhys /\ haz = IdleHaz /\ SvcIdle

OceanNext ==
    \E c \in Callers, lat \in OceanLats, lng \in OceanLngs :
        location_is_ocean_location(c, lat, lng)

OceanSpec == OceanInit /\ [][OceanNext]_vars

(***************************************************************************)
(* Volcanoes (main.py).  Distances are in units of 0.1 km, energies in     *)
(* whole megatons.                                                         *)
(***************************************************************************)
\* the places the volcanic functions are called with: the seven impact
\* sites, Mount St. Helens itself, Seattle, and places north of the volcano
\* on its meridian
VolcanoLocations ==
    {impact_sites[i] : i \in 1..Len(impact_sites)}
        \cup {<<462000, -1222000>>, <<476000, -1223000>>, <<488980, -1222000>>,
              <<488990, -1222000>>, <<498000, -1222000>>, <<506966, -1222000>>,
              <<506975, -1222000>>, <<520000, -1222000>>}

\* round(calculate_distance(lat, lng, 46.2, -122.2), 1): the haversine
\* distance (R = 6371 km) to Mount St. Helens, tabulated for the places above
distance_to_mount_st_helens(lat, lng) ==
    CASE <<lat, lng>> = <<407128, -740060>> -> 38767
      [] <<lat, lng>> = <<356762, 1396503>> -> 77890
      [] <<lat, lng>> = <<250000, 550000>> -> 120930
      [] <<lat, lng>> = <<-338688, 1512093>> -> 124089
      [] <<lat, lng>> = <<0, 0>> -> 124142
      [] <<lat, lng>> = <<-450000, -1700000>> -> 111710
      [] <<lat, lng>> = <<488566, 23522>> -> 81646
      [] <<lat, lng>> = <<462000, -1222000>> -> 0
      [] <<lat, lng>> = <<476000, -1223000>> -> 1559
      [] <<lat, lng>> = <<488980, -1222000>> -> 3000
      [] <<lat, lng>> = <<488990, -1222000>> -> 3001
      [] <<lat, lng>> = <<498000, -1222000>> -> 4003
      [] <<lat, lng>> = <<506966, -1222000>> -> 5000
      [] <<lat, lng>> = <<506975, -1222000>> -> 5001
      [] <<lat, lng>> = <<520000, -1222000>> -> 6449

mock_volcanoes(lat, lng) ==
    << [name |-> "Mount St. Helens",
        distance_km |-> distance_to_mount_st_helens(lat, lng),
        elevation_m |-> 2549, last_eruption |-> "2008", status |-> "Active",
        volcano_type |-> "Stratovolcano", risk_level |-> "High"] >>

\* get_nearby_volcanoes(lat, lng, radius_km), the radius in units of 0.1 km
get_nearby_volcanoes(lat, lng, radius_km) ==
    LET volcanoes_in_range ==
            SelectSeq(mock_volcanoes(lat, lng), LAMBDA v : v.distance_km <= radius_km)
    IN  [count |-> Len(volcanoes_in_range),
         search_radius_km |-> radius_km,
         active_volcanoes_count |->
             Len(SelectSeq(volcanoes_in_range, LAMBDA v : v.status = "Active")),
         volcanoes |-> volcanoes_in_range]

\* the trigger risk from the energy alone
assess_volcanic_trigger_risk_energy_alone(lat, lng, energy) ==
    LET active_volcanoes_count ==
            Get(get_nearby_volcanoes(lat, lng, 3000), "active_volcanoes_count", 0)
        risk == IF energy > 1000 THEN <<"VERY_HIGH", "40-60%">>
                ELSE IF energy > 500 THEN <<"HIGH", "25-40%">>
                ELSE IF energy > 100 THEN <<"MEDIUM", "15-25%">>
                ELSE IF energy > 50 THEN <<"LOW_MEDIUM", "5-15%">>
                ELSE <<"LOW", "<5%">>
    IN  [risk_level |-> risk[1], probability |-> risk[2],
         active_volcanoes_nearby |-> active_volcanoes_count,
         recommendation |-> IF active_volcanoes_count > 0
                            THEN "Monitor volcanic activity"
                            ELSE "No immediate concern"]

\* assess_volcanic_trigger_risk(lat, lng, asteroid), energy being
\* asteroid['energy_megatons_TNT']; the search radius is 300 km
assess_volcanic_trigger_risk(lat, lng, energy) ==
    LET volcanoes_data == get_nearby_volcanoes(lat, lng, 3000)
        active_volcanoes_count == Get(volcanoes_data, "active_volcanoes_count", 0)
        risk == IF energy > 1000 /\ active_volcanoes_count > 0
                THEN <<"VERY_HIGH", "40-60%">>
                ELSE IF energy > 500 /\ active_volcanoes_count > 0
                THEN <<"HIGH", "25-40%">>
                ELSE IF energy > 100 /\ active_volcanoes_count > 0
                THEN <<"MEDIUM", "15-25%">>
                ELSE IF energy > 50 /\ active_volcanoes_count > 0
                THEN <<"LOW_MEDIUM", "5-15%">>
                ELSE <<"LOW", "<5%">>
    IN  [risk_level |-> risk[1], probability |-> risk[2],
         active_volcanoes_nearby |-> active_volcanoes_count,
         recommendation |-> IF active_volcanoes_count > 0
                            THEN "Monitor volcanic activity"
                            ELSE "No immediate concern"]

\* estimate_ash_fall(lat, lng, asteroid); the search radius is 500 km
estimate_ash_fall(lat, lng, energy) ==
    LET volcanoes_data == get_nearby_volcanoes(lat, lng, 5000)
    IN  IF volcanoes_data.active_volcanoes_count = 0
        THEN [ash_fall_expected |-> FALSE,
              reason |-> "No active volcanoes in the area"]
        ELSE [ash_fall_expected |-> TRUE,
              risk_level |-> IF energy > 500 THEN "HIGH"
                             ELSE IF energy > 100 THEN "MEDIUM" ELSE "LOW",
              affected_radius_km |-> 200,
              health_warning |-> "Wear masks outdoors"]

\* the energies the volcanic functions are called with
VolcanoEnergies == {0, 50, 51, 100, 101, 500, 501, 1000, 1001}

volcano_assess_volcanic_trigger_risk(c, p, energy) ==
    /\ resp' = [resp EXCEPT ![c] =
                   [fn |-> "assess_volcanic_trigger_risk",
                    lat |-> p[1], lng |-> p[2], energy |-> energy,
                    out |-> assess_volcanic_trigger_risk(p[1], p[2], energy)]]
    /\ UNCHANGED <<rng, call, phys, haz, now, db>>

volcano_estimate_ash_fall(c, p, energy) ==
    /\ resp' = [resp EXCEPT ![c] =
                   [fn |-> "estimate_ash_fall",
                    lat |-> p[1], lng |-> p[2], energy |-> energy,
                    out |-> estimate_ash_fall(p[1], p[2], energy)]]
    /\ UNCHANGED <<rng, call, phys, haz, now, db>>

(***************************************************************************)
(* VolcSpec: one caller asks for the trigger risk and the ash fall at the  *)
(* places and energies above, in any order.                                *)
(***************************************************************************)
VolcInit == RngIdle /\ phys = IdlePhys /\ haz = IdleHaz /\ SvcIdle

VolcNext ==
    \/ \E p \in VolcanoLocations, e \in VolcanoEnergies :
          volcano_assess_volcanic_trigger_risk("c1", p, e)
    \/ \E p \in VolcanoLocations, e \in VolcanoEnergies :
          volcano_estimate_ash_fall("c1", p, e)

VolcSpec == VolcInit /\ [][VolcNext]_vars

(***************************************************************************)
(* The table asteroids (database.py).  id is its INTEGER PRIMARY KEY, name *)
(* and date are NOT NULL.  A CSV file is the sequence of its rows, or      *)
(* cannot be read.                                                         *)
(***************************************************************************)
\* the rows of the CSV files: two ids under two names at two distances, and
\* a row whose name field is empty, which is read as a missing value
CsvRows ==
    [id : {1, 2}, name : {"(2026 AB)", "433 Eros"}, date : {DateStr(739919)},
     diameter_avg : {150}, velocity_km_s : {20},
     miss_distance_km : {1440000, 10000000}, energy_megatons_TNT : {12}]
NamelessRow ==
    [id |-> 3, name |-> "", date |-> DateStr(739919), diameter_avg |-> 150,
     velocity_km_s |-> 20, miss_distance_km |-> 1440000, energy_megatons_TNT |-> 12]

\* the files: one row, two rows of the same or of different ids, a row
\* followed by the row without a name, and a file that cannot be read
CsvFiles ==
    {[readable |-> FALSE]}
    \cup {[readable |-> TRUE, rows |-> <<r>>] : r \in CsvRows}
    \cup {[readable |-> TRUE, rows |-> <<r1, r2>>] :
              r1 \in {r \in CsvRows : r.miss_distance_km = 1440000},
              r2 \in {r \in CsvRows : r.name = "433 Eros"}}
    \cup {[readable |-> TRUE, rows |-> <<r, NamelessRow>>] :
              r \in {r \in CsvRows : r.id = 1 /\ r.miss_distance_km = 1440000}}

\* lines 46-50: the column the file does not have
with_is_potentially_hazardous(row) ==
    [id |-> row.id, name |-> row.name, date |-> row.date,
     diameter_avg |-> row.diameter_avg, velocity_km_s |-> row.velocity_km_s,
     miss_distance_km |-> row.miss_distance_km,
     energy_megatons_TNT |-> row.energy_megatons_TNT,
     is_potentially_hazardous |->
         row.diameter_avg >= 140 /\ row.miss_distance_km <= 7479893]

\* INSERT without the primary key: the row is added to the rows there are
insert_keeping_old_rows(table, row) == Return(table \cup {row})

\* INSERT OR REPLACE INTO asteroids: the row takes the place of the row of
\* its id; a missing name is bound as NULL and refused with IntegrityError
insert_or_replace(table, row) ==
    IF row.name = "" THEN Raise("IntegrityError")
    ELSE Return({old \in table : old.id # row.id} \cup {row})

\* the for loop of load_from_csv from row i on
RECURSIVE insert_rows(_, _, _)
insert_rows(table, rows, i) ==
    IF i > Len(rows) THEN Return(table)
    ELSE LET inserted == insert_or_replace(table, with_is_potentially_hazardous(rows[i]))
         IN  IF inserted.raised # "none" THEN inserted
             ELSE insert_rows(inserted.value, rows, i + 1)

\* AsteroidDB.load_from_csv: what it returns and the table it leaves.  The
\* rows are committed after the loop; an exception leaves the loop before
\* the commit and the connection is dropped, which rolls its inserts back.
load_from_csv(table, csv) ==
    IF ~csv.readable THEN [returned |-> FALSE, table |-> table]
    ELSE LET inserted == insert_rows(table, csv.rows, 1)
         IN  IF inserted.raised # "none" THEN [returned |-> FALSE, table |-> table]
             ELSE [returned |-> TRUE, table |-> inserted.value]

db_load_from_csv(c, csv) ==
    /\ db' = load_from_csv(db, csv).table
    /\ resp' = [resp EXCEPT ![c] =
                   [fn |-> "load_from_csv", csv |-> csv,
                    out |-> load_from_csv(db, csv).returned]]
    /\ UNCHANGED <<rng, call, phys, haz, now>>

db_query_asteroid_by_id(c, asteroid_id) ==
    /\ resp' = [resp EXCEPT ![c] =
                   [fn |-> "db.get_asteroid_by_id", asteroid_id |-> asteroid_id,
                    out |-> db_get_asteroid_by_id(asteroid_id)]]
    /\ UNCHANGED <<rng, call, phys, haz, now, db>>

(***************************************************************************)
(* DbSpec: from the empty table init_database creates, one caller loads    *)
(* the files above and asks for rows by id, in any order.                  *)
(***************************************************************************)
DbInit ==
    /\ RngIdle /\ phys = IdlePhys /\ haz = IdleHaz
    /\ now = 739921 * 24 + 10
    /\ resp = [c \in Callers |-> IdleResp]
    /\ db = {}

DbNext ==
    \/ \E csv \in CsvFiles : db_load_from_csv("c1", csv)
    \/ \E id \in 1..4 : db_query_asteroid_by_id("c1", id)

DbSpec == DbInit /\ [][DbNext]_vars

(***************************************************************************)
(* The threats of the table (main.py, database.py).  distance_au, rounded  *)
(* to six decimals, is in millionths of an AU.                             *)
(***************************************************************************)
\* the row of rows that ORDER BY date puts first (rows of one date in the
\* order of their rowid, which is the id)
FirstByDate(rows) ==
    CHOOSE row \in rows :
        \A other \in rows :
            \/ row.date.ordinal < other.date.ordinal
            \/ row.date.ordinal = other.date.ordinal /\ row.id <= other.id

\* AsteroidDB.get_all_asteroids: SELECT * FROM asteroids ORDER BY date
RECURSIVE get_all_asteroids(_)
get_all_asteroids(table) ==
    IF table = {} THEN <<>>
    ELSE <<FirstByDate(table)>> \o get_all_asteroids(table \ {FirstByDate(table)})

\* round(miss_distance_km / 149597870.7, 6), tabulated for the distances of
\* the model
round_distance_au(miss_distance_km) ==
    CASE miss_distance_km = 0 -> 0
      [] miss_distance_km = 500000 -> 3342
      [] miss_distance_km = 1440000 -> 9626
      [] miss_distance_km = 1495978 -> 10000
      [] miss_distance_km = 1495979 -> 10000
      [] miss_distance_km = 7479893 -> 50000
      [] miss_distance_km = 7479894 -> 50000
      [] miss_distance_km = 10000000 -> 66846

\* list.sort(key = distance_au): a stable sort, the elements of equal key
\* stay in the order they had
RECURSIVE sort_by_distance_au(_)
sort_by_distance_au(threats) ==
    IF Len(threats) <= 1 THEN threats
    ELSE LET first == CHOOSE i \in 1..Len(threats) :
                          /\ \A j \in 1..Len(threats) :
                                 threats[i].distance_au <= threats[j].distance_au
                          /\ \A j \in 1..(i - 1) :
                                 threats[i].distance_au < threats[j].distance_au
             rest == [k \in 1..(Len(threats) - 1) |->
                         IF k < first THEN threats[k] ELSE threats[k + 1]]
         IN  <<threats[first]>> \o sort_by_distance_au(rest)

\* the body of the for loop: the threat of a row within 0.05 AU
threat_of(asteroid) ==
    [id |-> asteroid.id, name |-> asteroid.name, date |-> asteroid.date,
     diameter_km |-> asteroid.diameter_avg,
     velocity_km_s |-> asteroid.velocity_km_s,
     distance_km |-> asteroid.miss_distance_km,
     distance_au |-> round_distance_au(asteroid.miss_distance_km),
     energy_mt |-> asteroid.energy_megatons_TNT,
     threat_level |-> IF AuLe(asteroid.miss_distance_km, 1) THEN "CRITICAL" ELSE "HIGH",
     is_immediate_threat |-> AuLe(asteroid.miss_distance_km, 1)]

\* the for loop from row i of df on
RECURSIVE threats_from(_, _)
threats_from(df, i) ==
    IF i > Len(df) THEN <<>>
    ELSE (IF AuLe(df[i].miss_distance_km, 5) THEN <<threat_of(df[i])>> ELSE <<>>)
         \o threats_from(df, i + 1)

\* validate_and_identify_threats(), table being what db holds
validate_and_identify_threats(table) ==
    LET df == get_all_asteroids(table)
    IN  IF df = <<>> THEN <<>>
        ELSE sort_by_distance_au(threats_from(df, 1))

\* the tables the threats are identified in: of each of three ids no row or
\* one row, the approach of a later id on a later day
ThreatDistances == {1440000, 1495978, 1495979, 7479893, 7479894}
ThreatRow(id, miss_distance_km) ==
    [id |-> id, name |-> "(2026 AB)", date |-> DateStr(739919 + id),
     diameter_avg |-> 150, velocity_km_s |-> 20,
     miss_distance_km |-> miss_distance_km, energy_megatons_TNT |-> 12]
ThreatTables ==
    {{ThreatRow(id, held[id]) : id \in {id \in 1..3 : held[id] # 0}} :
        held \in [1..3 -> ThreatDistances \cup {0}]}

main_validate_and_identify_threats(c) ==
    /\ resp' = [resp EXCEPT ![c] =
                   [fn |-> "validate_and_identify_threats",
                    out |-> validate_and_identify_threats(db)]]
    /\ UNCHANGED <<rng, call, phys, haz, now, db>>

main_get_all_asteroids(c) ==
    /\ resp' = [resp EXCEPT ![c] =
                   [fn |-> "get_all_asteroids", out |-> get_all_asteroids(db)]]
    /\ UNCHANGED <<rng, call, phys, haz, now, db>>

(***************************************************************************)
(* ThreatSpec: the table holds one of the tables above; one caller reads   *)
(* it and identifies its threats.                                          *)
(***************************************************************************)
ThreatInit ==
    /\ RngIdle /\ phys = IdlePhys /\ haz = IdleHaz
    /\ now = 739921 * 24 + 10
    /\ resp = [c \in Callers |-> IdleResp]
    /\ db \in ThreatTables

ThreatNext ==
    \/ main_validate_and_identify_threats("c1")
    \/ main_get_all_asteroids("c1")

ThreatSpec == ThreatInit /\ [][ThreatNext]_vars

(***************************************************************************)
(* The endpoints that hand stored asteroids to the strategy selector       *)
(* (main.py), /asteroids/{asteroid_id} and /asteroids/raw, and the report  *)
(* of /asteroids/{asteroid_id}/natural-hazards.  Each handler              *)
(* runs without interruption, so the classifier's seed, draw and reseed    *)
(* are one step of it.                                                     *)
(***************************************************************************)
\* AsteroidTypeClassifier.classify_asteroid, of the type information the
\* code only
classify_asteroid(asteroid_id) ==
    [type_code |-> ClassifyLoop(randint(seed(asteroid_id), 1, total), 1, 0),
     classification_method |-> "statistical", confidence |-> "low"]

\* "CRITICAL" if distance_au <= 0.01 else "HIGH" if distance_au <= 0.05 else "LOW"
endpoint_threat_level(miss_distance_km) ==
    IF AuLe(miss_distance_km, 1) THEN "CRITICAL"
    ELSE IF AuLe(miss_distance_km, 5) THEN "HIGH"
    ELSE "LOW"

\* /asteroids/{asteroid_id}: of the answer, the threat assessment and the
\* defense strategies
get_asteroid_by_id_answer(asteroid_id) ==
    LET asteroid == db_get_asteroid_by_id(asteroid_id)
        threat_assessment_data ==
            [threat_level |-> endpoint_threat_level(asteroid.miss_distance_km)]
    IN  IF asteroid = None THEN [status |-> 404]
        ELSE [status |-> 200, id |-> asteroid.id,
              spectral_classification |-> classify_asteroid(asteroid_id),
              miss_distance_km |-> asteroid.miss_distance_km,
              threat_level |-> threat_assessment_data.threat_level,
              time_until_impact_years |-> estimate_time_until_impact(asteroid),
              defense_strategies |->
                  get_defense_strategies(asteroid, threat_assessment_data)]

\* the body of the for loop of get_raw_data
raw_asteroid_dict(asteroid, include_defense) ==
    LET asteroid_dict ==
            asteroid @@ [spectral_classification |-> classify_asteroid(asteroid.id)]
        threat_level == endpoint_threat_level(asteroid_dict.miss_distance_km)
    IN  IF include_defense
        THEN asteroid_dict @@
                 [defense_strategies |->
                      get_defense_strategies(asteroid_dict, [threat_level |-> threat_level])]
        ELSE asteroid_dict

\* /asteroids/raw; limit 0 stands for no limit too (if limit:)
get_raw_data(limit, hazardous_only, include_defense) ==
    LET all == get_all_asteroids(db)
        filtered == IF hazardous_only
                    THEN SelectSeq(all, LAMBDA a : AuLe(a.miss_distance_km, 5))
                    ELSE all
        df == IF limit # 0 THEN Take(filtered, limit) ELSE filtered
    IN  IF all = <<>> THEN [status |-> 404]
        ELSE [status |-> 200, count |-> Len(df),
              hazardous_count |->
                  Len(SelectSeq(df, LAMBDA a : AuLe(a.miss_distance_km, 5))),
              include_defense |-> include_defense,
              data |-> [i \in 1..Len(df) |-> raw_asteroid_dict(df[i], include_defense)]]

\* the table of the catalogue: asteroids of 150, 201 and 600 m on both
\* sides of 0.01 and of 0.05 AU, the approach of a later id on a later day
CatalogueDiameters == <<150, 201, 600>>
CatalogueDistances == <<500000, 1495978, 1495979, 7479894>>
Catalogue ==
    {[id |-> (i - 1) * Len(CatalogueDistances) + j,
      name |-> "(2026 AB)", date |-> DateStr(739919 + (i - 1) * Len(CatalogueDistances) + j),
      diameter_avg |-> CatalogueDiameters[i], velocity_km_s |-> 20,
      miss_distance_km |-> CatalogueDistances[j], energy_megatons_TNT |-> 12] :
        i \in 1..Len(CatalogueDiameters), j \in 1..Len(CatalogueDistances)}

api_get_asteroid_by_id(c, asteroid_id) ==
    /\ resp' = [resp EXCEPT ![c] =
                   [fn |-> "/asteroids/{asteroid_id}", asteroid_id |-> asteroid_id,
                    out |-> get_asteroid_by_id_answer(asteroid_id)]]
    /\ IF db_get_asteroid_by_id(asteroid_id) = None
       THEN rng' = rng
       ELSE \E e \in EntropyStates : rng' = ReseedOnReturn(rng, e)
    /\ UNCHANGED <<call, phys, haz, now, db>>

\* /asteroids/{asteroid_id}/natural-hazards: of the report, the asteroid
\* info and the tsunami risk
natural_hazards_report(asteroid_id) ==
    LET asteroid == db_get_asteroid_by_id(asteroid_id)
        impact_lat == SiteOf(asteroid_id)[1]
        impact_lng == SiteOf(asteroid_id)[2]
        is_ocean == is_ocean_location(impact_lat, impact_lng)
    IN  IF asteroid = None THEN [status |-> 404]
        ELSE [status |-> 200,
              asteroid_info |->
                  [id |-> asteroid_id, name |-> asteroid.name,
                   energy_megatons |-> asteroid.energy_megatons_TNT,
                   impact_location |-> <<impact_lat, impact_lng>>,
                   impact_type |-> IF is_ocean THEN "ocean" ELSE "land"],
              tsunami_risk |->
                  calculate_tsunami_risk(impact_lat, impact_lng,
                                         asteroid.energy_megatons_TNT)]

api_get_natural_hazards_analysis(c, asteroid_id) ==
    /\ resp' = [resp EXCEPT ![c] =
                   [fn |-> "/asteroids/{asteroid_id}/natural-hazards",
                    asteroid_id |-> asteroid_id,
                    out |-> natural_hazards_report(asteroid_id)]]
    /\ UNCHANGED <<rng, call, phys, haz, now, db>>

api_get_raw_data(c, limit, hazardous_only, include_defense) ==
    /\ resp' = [resp EXCEPT ![c] =
                   [fn |-> "/asteroids/raw", limit |-> limit,
                    hazardous_only |-> hazardous_only,
                    out |-> get_raw_data(limit, hazardous_only, include_defense)]]
    /\ IF get_raw_data(limit, hazardous_only, include_defense).status = 404
       THEN rng' = rng
       ELSE \E e \in EntropyStates : rng' = ReseedOnReturn(rng, e)
    /\ UNCHANGED <<call, phys, haz, now, db>>

(***************************************************************************)
(* CatSpec: the table holds the catalogue; the callers ask for asteroids   *)
(* by id, for the raw data and for natural hazards, in any order.          *)
(***************************************************************************)
CatInit ==
    /\ RngIdle /\ phys = IdlePhys /\ haz = IdleHaz
    /\ now = 739921 * 24 + 10
    /\ resp = [c \in Callers |-> IdleResp]
    /\ db = Catalogue

CatNext ==
    \/ \E c \in Callers, id \in 0..(Cardinality(Catalogue) + 1) :
          api_get_asteroid_by_id(c, id)
    \/ \E c \in Callers, limit \in 0..2, hazardous_only \in BOOLEAN,
             include_defense \in BOOLEAN :
          api_get_raw_data(c, limit, hazardous_only, include_defense)
    \/ \E c \in Callers, id \in 0..(Cardinality(Catalogue) + 1) :
          api_get_natural_hazards_analysis(c, id)

CatSpec == CatInit /\ [][CatNext]_vars

(***************************************************************************)
(* The user impact analysis (main.py, models.py).  The diameter is in      *)
(* whole kilometres: the operation hands diameter_km to the selector as    *)
(* diameter_avg, and a fraction of a kilometre compares with each of the   *)
(* selector's thresholds as 1 km does.                                     *)
(***************************************************************************)
\* the Field ranges of UserAsteroidInput the model keeps (0.01 <= diameter
\* <= 10 in whole km, 1 <= velocity <= 70, 1000 <= density <= 8000)
UserAsteroidInput(user_input) ==
    /\ 1 <= user_input.diameter_km /\ user_input.diameter_km <= 10
    /\ 1 <= user_input.velocity_km_s /\ user_input.velocity_km_s <= 70
    /\ 1000 <= user_input.density_kg_m3 /\ user_input.density_kg_m3 <= 8000

\* get_defense_strategies called with any dict: _enhance_strategy reads
\* asteroid['name'] (line 854) for every strategy whose rule holds
get_defense_strategies_call(asteroid_data, impact_analysis) ==
    LET diameter == asteroid_data.diameter_avg
        time_until_impact == estimate_time_until_impact(asteroid_data)
        enhanced ==
            \/ kinetic_rule(diameter, time_until_impact)
            \/ gravity_rule(diameter, time_until_impact)
            \/ nuclear_rule(Get(impact_analysis, "threat_level", "LOW"),
                            diameter, time_until_impact)
            \/ laser_rule(Get(asteroid_data, "spectral_type", "UNKNOWN"), diameter)
    IN  IF enhanced /\ "name" \notin DOMAIN asteroid_data THEN Raise("KeyError")
        ELSE Return(get_defense_strategies(asteroid_data, impact_analysis))

\* the operation with the asteroid taken to pass at 1 AU
calculate_user_impact_analysis_passing_by(user_input) ==
    LET asteroid_data == [diameter_avg |-> user_input.diameter_km,
                          velocity_km_s |-> user_input.velocity_km_s,
                          miss_distance_km |-> 149597870]
        defense_recommendations ==
            get_defense_strategies_call(asteroid_data, [threat_level |-> "HIGH"])
    IN  IF ~UserAsteroidInput(user_input) THEN [status |-> 422]
        ELSE IF defense_recommendations.raised # "none" THEN [status |-> 500]
        ELSE [status |-> 200,
              defense_recommendations |-> defense_recommendations.value]

\* /user/impact-analysis: of the answer, the defense recommendations; the
\* energy of asteroid_data, which the selector does not read, is left out
calculate_user_impact_analysis(user_input) ==
    LET asteroid_data == [diameter_avg |-> user_input.diameter_km,
                          velocity_km_s |-> user_input.velocity_km_s,
                          miss_distance_km |-> 0]
        defense_recommendations ==
            get_defense_strategies_call(asteroid_data, [threat_level |-> "HIGH"])
    IN  IF ~UserAsteroidInput(user_input) THEN [status |-> 422]
        ELSE IF defense_recommendations.raised # "none" THEN [status |-> 500]
        ELSE [status |-> 200,
              defense_recommendations |-> defense_recommendations.value]

\* the requests: values at the ends of each range, inside and outside it
UserInputs ==
    [diameter_km : {0, 1, 2, 5, 10, 11, 201},
     velocity_km_s : {0, 1, 20, 70, 71},
     density_kg_m3 : {999, 1000, 2000, 8000}]

api_calculate_user_impact_analysis(c, user_input) ==
    /\ resp' = [resp EXCEPT ![c] =
                   [fn |-> "/user/impact-analysis", user_input |-> user_input,
                    out |-> calculate_user_impact_analysis(user_input)]]
    /\ UNCHANGED <<rng, call, phys, haz, now, db>>

(***************************************************************************)
(* UserSpec: one caller posts the requests above, in any order.            *)
(***************************************************************************)
UserInit == RngIdle /\ phys = IdlePhys /\ haz = IdleHaz /\ SvcIdle

UserNext ==
    \E user_input \in UserInputs : api_calculate_user_impact_analysis("c1", user_input)

UserSpec == UserInit /\ [][UserNext]_vars

(***************************************************************************)
(* The seeded generators: claims C1 to C5                                  *)
(***************************************************************************)
Returned(c, op) == call[c].pc = "done" /\ call[c].op = op

\* the code an uninterrupted call of classify_by_id(id) returns
UninterruptedCode(id) == ClassifyLoop(randint(seed(id), 1, total), 1, 0)

\* C1: classify_by_id(id) returns the same type code for a given id on every
\* call, the code of an uninterrupted call, also when the seed and draw steps
\* of concurrent callers of the seeded generators are interleaved with it.
C1_SameCodeUnderInterleaving ==
    \A c \in Callers :
        Returned(c, "classify_by_id") => call[c].ret = UninterruptedCode(call[c].arg)

SiteOps == {"generate_impact_site", "LocationAnalyzer_generate_impact_site"}

\* C2: in a sequential run generate_impact_site(id) returns the same (lat, lng)
\* for the same id whatever calls were made in between, and for every id,
\* 0 and negative ids included, lat is in [-60, 60] and lng in [-180, 180].
C2_SiteDeterministicInRange ==
    \A c \in Callers : \A op \in SiteOps :
        Returned(c, op) =>
            /\ call[c].site[1] >= -600000 /\ call[c].site[1] <= 600000
            /\ call[c].site[2] >= -1800000 /\ call[c].site[2] <= 1800000
            /\ \A d \in Callers :
                   (Returned(d, op) /\ call[d].arg = call[c].arg)
                       => call[d].site = call[c].site

\* two calls of the seeded site generator with the same negative id have
\* returned, the generator having been re-seeded from entropy in between
C2_Witness ==
    /\ Returned("c1", "LocationAnalyzer_generate_impact_site")
    /\ Returned("c2", "LocationAnalyzer_generate_impact_site")
    /\ call["c1"].arg = call["c2"].arg
    /\ call["c1"].arg < 0

\* C3: when LocationAnalyzer.generate_impact_site(id) returns, the shared
\* generator has been re-randomized: it is not in a state determined by id.
C3_SiteGeneratorReseeds ==
    [][\A c \in Callers :
          (call[c].pc # "done" /\ call'[c].pc = "done"
              /\ call'[c].op = "LocationAnalyzer_generate_impact_site")
          => rng'.src # "seed"]_vars

\* C4: in a sequential run every return of classify_by_id leaves the shared
\* generator re-seeded from entropy, never in the id-seeded state.
C4_ClassifyReseedsOnReturn ==
    [][\A c \in Callers :
          (call[c].pc # "done" /\ call'[c].pc = "done"
              /\ call'[c].op = "classify_by_id")
          => rng'.src = "entropy"]_vars

\* a call of classify_by_id has returned and the generator is entropy-seeded
C4_Witness ==
    \E c \in Callers : Returned(c, "classify_by_id") /\ rng.src = "entropy"

\* the claim's table: the first code whose cumulative weight is >= r
CodeByCumulativeWeight(r) ==
    CASE r <= 45 -> "S" [] r > 45 /\ r <= 75 -> "C" [] r > 75 /\ r <= 80 -> "M"
      [] r > 80 /\ r <= 85 -> "Q" [] r > 85 /\ r <= 88 -> "V" [] r > 88 /\ r <= 90 -> "B"
      [] r > 90 /\ r <= 92 -> "K" [] r > 92 /\ r <= 94 -> "D" [] r > 94 /\ r <= 96 -> "P"
      [] r = 97 -> "R" [] r = 98 -> "T" [] r = 99 -> "A" [] r >= 100 -> "L"

\* C5: the weights total 100 and for every draw r of 1..100 classify_by_id
\* returns the first table entry whose cumulative weight is >= r, so never
\* "UNKNOWN".
C5_BucketByCumulativeWeight ==
    /\ total = 100
    /\ Len(type_distribution) = 13
    /\ \A c \in Callers :
           Returned(c, "classify_by_id") =>
               /\ call[c].rand_val \in 1..100
               /\ call[c].ret = CodeByCumulativeWeight(call[c].rand_val)
               /\ call[c].ret # "UNKNOWN"

\* the largest draw, 100, has been classified as L
C5_Witness ==
    \E c \in Callers :
        Returned(c, "classify_by_id") /\ call[c].rand_val = 100 /\ call[c].ret = "L"

(***************************************************************************)
(* The physics functions: claims C6 to C8                                  *)
(***************************************************************************)
\* C6: the physics functions reject non-positive input with InvalidInput
\* instead of computing a value: mass when diameter <= 0, kinetic_energy when
\* velocity <= 0.
C6_RejectsNonPositiveInput ==
    /\ (phys.fn = "calculate_mass" /\ phys.args.diameter <= 0)
           => phys.out.raised = "InvalidInput"
    /\ (phys.fn = "calculate_kinetic_energy" /\ phys.args.velocity_km_s <= 0)
           => phys.out.raised = "InvalidInput"

\* C7 as stated, for a positive diameter d: d is taken as kilometres and converted to
\* metres before cubing, so the radius cubed is (d * 1000 / 2)^3, that is
\* (50 * d10)^3 (250^3 for d = 0.5), and the density is the default 2600.
C7_ConvertsKilometresToMetres ==
    (phys.fn = "calculate_mass" /\ phys.args.diameter > 0) =>
        /\ phys.args.density = 2600
        /\ phys.out.radius_cubed_8000 % 8000 = 0
        /\ phys.out.radius_cubed_8000 \div 8000
               = (50 * phys.args.diameter) * (50 * phys.args.diameter)
                    * (50 * phys.args.diameter)

\* C7 as amended: mass cubes half of its argument without any conversion of
\* unit: for a record with diameter_avg d the mass used by the pipeline is
\* 2600 * (4/3) * pi * (d / 2)^3; for d = 0.5 the radius cubed is 0.25^3.
C7_CubesHalfTheDiameterAsGiven ==
    phys.fn = "calculate_mass" =>
        LET d10 == phys.args.diameter
        IN  /\ phys.args.density = 2600
            /\ phys.out.raised = "none"
            \* (d/2)^3 = d10^3 / 8000
            /\ phys.out.radius_cubed_8000 = d10 * d10 * d10
            \* 2600 * (4/3) * pi * (d/2)^3 = (pi/6000) * 2600 * d10^3
            /\ phys.out.mass_pi_6000 = 2600 * d10 * d10 * d10

\* the mass of a record with diameter_avg = 0.5: radius cubed 125/8000 = 0.25^3
C7_Witness ==
    /\ phys.fn = "calculate_mass"
    /\ phys.args.diameter = 5
    /\ phys.out.radius_cubed_8000 = 125

\* C8: classify_hazard is the first-match cascade EXTINCTION_LEVEL (diameter
\* >= 1000, distance < 0.05 AU), CIVILIZATION_THREAT (diameter >= 300,
\* distance < 0.1 AU, energy > 1000), REGIONAL_DEVASTATION (diameter >= 140,
\* distance < 0.05 AU), CITY_DESTROYER (diameter >= 50, distance < 0.01 AU),
\* else LOW_RISK.  In whole km: 0.01 AU = 1495978.707 km, 0.05 AU =
\* 7479893.535 km, 0.1 AU = 14959787.07 km.
C8_FirstMatchCascade ==
    phys.fn = "classify_hazard" =>
        LET a == phys.args
            extinction == a.diameter_m >= 1000 /\ a.distance_km <= 7479893
            civilization == /\ a.diameter_m >= 300 /\ a.distance_km <= 14959787
                            /\ a.energy_mt > 1000
            regional == a.diameter_m >= 140 /\ a.distance_km <= 7479893
            city == a.diameter_m >= 50 /\ a.distance_km <= 1495978
        IN  /\ (phys.out = "EXTINCTION_LEVEL") <=> extinction
            /\ (phys.out = "CIVILIZATION_THREAT") <=> (~extinction /\ civilization)
            /\ (phys.out = "REGIONAL_DEVASTATION")
                   <=> (~extinction /\ ~civilization /\ regional)
            /\ (phys.out = "CITY_DESTROYER")
                   <=> (~extinction /\ ~civilization /\ ~regional /\ city)
            /\ (phys.out = "LOW_RISK")
                   <=> (~extinction /\ ~civilization /\ ~regional /\ ~city)

\* the scenario (1500 m, 1,000,000 km, 50000 MT), which satisfies all four
\* rules, has been classified EXTINCTION_LEVEL
C8_Witness ==
    /\ phys.fn = "classify_hazard"
    /\ phys.args = [diameter_m |-> 1500, distance_km |-> 1000000, energy_mt |-> 50000]
    /\ phys.out = "EXTINCTION_LEVEL"

(***************************************************************************)
(* The hazard functions: claims C9 and C10                                 *)
(***************************************************************************)
\* C9: calculate_tsunami_risk returns tsunami_expected = false and risk NONE
\* for every land location whatever the energy, and risk tier EXTREME for
\* every ocean location with energy > 100.
C9_TsunamiLandNoneOceanExtreme ==
    haz.fn = "calculate_tsunami_risk" =>
        LET ocean == is_ocean_location(haz.args.lat, haz.args.lng)
        IN  /\ ~ocean => (haz.out.tsunami_expected = FALSE
                             /\ haz.out.risk_level = "NONE")
            /\ (ocean /\ haz.args.energy > 100) => haz.out.risk_level = "EXTREME"

\* a land place (Tokyo) has been assessed with an energy above 100
C9_Witness ==
    /\ haz.fn = "calculate_tsunami_risk"
    /\ <<haz.args.lat, haz.args.lng>> = <<356762, 1396503>>
    /\ haz.args.energy > 100
    /\ haz.out.tsunami_expected = FALSE

\* the 1..5 score from the distance and energy thresholds, in whole km
\* (0.01 AU = 1495978.707 km, 0.05 AU = 7479893.535 km)
BaseScore(energy, miss_distance_km) ==
    IF miss_distance_km <= 1495978 /\ energy > 10 THEN 5
    ELSE IF miss_distance_km <= 7479893 /\ energy > 10 THEN 4
    ELSE IF energy > 100 THEN 3
    ELSE IF energy > 10 THEN 2
    ELSE 1

LevelName(score) ==
    CASE score = 0 -> "MINIMAL" [] score = 1 -> "LOW" [] score = 2 -> "MEDIUM"
      [] score = 3 -> "HIGH" [] score = 4 -> "VERY_HIGH" [] score = 5 -> "EXTREME"

OceanicNearCoast(lat, lng) ==
    is_ocean_location(lat, lng) /\ calculate_distance_to_coast(lat, lng) < 10000

\* C10 as stated: the 1..5 score is raised by one, capped at 5, whenever the
\* impact is oceanic and the nearest coast is within 1000 km, for every
\* energy value, and is then mapped to the risk-level name.
C10_RaisedWheneverOceanicNearCoast ==
    haz.fn = "calculate_overall_risk_level_improved" =>
        LET a == haz.args
            base == BaseScore(a.energy, a.miss_distance_km)
        IN  haz.out = LevelName(IF OceanicNearCoast(a.lat, a.lng)
                                THEN Min(5, base + 1) ELSE base)

\* C10 as amended: the score is raised by one, capped at 5, exactly when the
\* impact is oceanic, the energy is above 1 megaton and the nearest coast is
\* within 1000 km; it stays in 1..5 and is mapped to the risk-level name.
C10_RaisedWhenOceanicNearCoastAboveOneMegaton ==
    haz.fn = "calculate_overall_risk_level_improved" =>
        LET a == haz.args
            base == BaseScore(a.energy, a.miss_distance_km)
            score == IF OceanicNearCoast(a.lat, a.lng) /\ a.energy > 1
                     THEN Min(5, base + 1) ELSE base
        IN  /\ score \in 1..5
            /\ haz.out = LevelName(score)

\* an impact off Paris (ocean by the boxes, 341.8 km from the coast) with 11
\* megatons and a distant miss: the score 2 has been raised to 3, HIGH
C10_Witness ==
    /\ haz.fn = "calculate_overall_risk_level_improved"
    /\ <<haz.args.lat, haz.args.lng>> = <<488566, 23522>>
    /\ haz.args.energy = 11
    /\ haz.args.miss_distance_km = 20000000
    /\ haz.out = "HIGH"

(***************************************************************************)
(* The defense strategies: claims C11 to C13                               *)
(***************************************************************************)
Selected(c) == resp[c].fn = "get_defense_strategies"

\* the place of a strategy in the order its rule is checked in
RuleOrder(name) ==
    CASE name = "Kinetic Impactor" -> 1
      [] name = "Gravity Tractor" -> 2
      [] name = "Nuclear Deflection" -> 3
      [] name = "Laser Ablation" -> 4

\* C11: get_defense_strategies returns at most three strategies, in
\* non-increasing order of priority score, and strategies of equal score are
\* in the order their rules are checked in: Kinetic Impactor, Gravity
\* Tractor, Nuclear Deflection, Laser Ablation.
C11_TopThreeByPriorityStable ==
    \A c \in Callers :
        Selected(c) =>
            LET out == resp[c].out
            IN  /\ Len(out) <= 3
                /\ \A i \in 1..Len(out), j \in 1..Len(out) :
                       i < j =>
                           /\ out[i].priority_score >= out[j].priority_score
                           /\ out[i].priority_score = out[j].priority_score
                                  => RuleOrder(out[i].name) < RuleOrder(out[j].name)

\* two strategies of equal score are returned
C11_Witness ==
    \E c \in Callers :
        /\ Selected(c)
        /\ Len(resp[c].out) = 2
        /\ resp[c].out[1].priority_score = resp[c].out[2].priority_score
        /\ resp[c].out[1].name = "Kinetic Impactor"
        /\ resp[c].out[2].name = "Laser Ablation"

Names(out) == {out[i].name : i \in 1..Len(out)}

\* C12: a strategy is returned only if its own rule holds: Kinetic Impactor
\* only for a diameter below 500 and more than 2 years, Gravity Tractor only
\* for a diameter below 1000 and more than 10 years, Nuclear Deflection only
\* for a threat level HIGH, VERY_HIGH or EXTREME, less than 5 years and a
\* diameter above 200, Laser Ablation only for spectral type S-type or M-type
\* and a diameter below 200; at 0.1 years (a miss distance of at most 0.01
\* AU) neither Kinetic Impactor nor Gravity Tractor is returned.
C12_ReturnedOnlyIfRuleHolds ==
    \A c \in Callers :
        Selected(c) =>
            LET a == resp[c].asteroid_data
                i == resp[c].impact_analysis
                years10 == estimate_time_until_impact(a)
                returned == Names(resp[c].out)
            IN  /\ "Kinetic Impactor" \in returned
                       => a.diameter_avg < 500 /\ years10 > 20
                /\ "Gravity Tractor" \in returned
                       => a.diameter_avg < 1000 /\ years10 > 100
                /\ "Nuclear Deflection" \in returned
                       => /\ "threat_level" \in DOMAIN i
                          /\ i.threat_level \in {"HIGH", "VERY_HIGH", "EXTREME"}
                          /\ years10 < 50
                          /\ a.diameter_avg > 200
                /\ "Laser Ablation" \in returned
                       => /\ "spectral_type" \in DOMAIN a
                          /\ a.spectral_type \in {"S-type", "M-type"}
                          /\ a.diameter_avg < 200
                /\ AuLe(a.miss_distance_km, 1)
                       => /\ years10 = 1
                          /\ returned \cap {"Kinetic Impactor", "Gravity Tractor"} = {}

\* at 0.1 years a small asteroid gets a strategy, and it is not the impactor
C12_Witness ==
    \E c \in Callers :
        /\ Selected(c)
        /\ AuLe(resp[c].asteroid_data.miss_distance_km, 1)
        /\ resp[c].asteroid_data.diameter_avg < 500
        /\ Names(resp[c].out) = {"Laser Ablation"}

Optimized(c) == resp[c].fn = "optimize_defense_strategy"

\* C13: the optimizer returns the entry of least cost of its table, Gravity,
\* whatever mass, velocity and time to impact it is given and also when one
\* of them is missing; two calls that differ in these inputs only choose the
\* same strategy.
C13_AlwaysCheapestStrategy ==
    /\ \A c \in Callers :
           Optimized(c) =>
               /\ resp[c].out.raised = "none"
               /\ resp[c].out.best_strategy = "Gravity"
    /\ \A c1 \in Callers, c2 \in Callers :
           Optimized(c1) /\ Optimized(c2) /\ resp[c1].clock = resp[c2].clock
               => /\ resp[c1].out.raised = resp[c2].out.raised
                  /\ resp[c1].out.raised = "none"
                         => resp[c1].out.best_strategy = resp[c2].out.best_strategy

(***************************************************************************)
(* The impact date calculator: claims C14 to C16 and C20                   *)
(***************************************************************************)
Estimated(c) == resp[c].fn = "calculate_impact_date"

\* the record has what the computation needs and the computation does not
\* divide by a zero velocity
Computable(a) ==
    /\ {"miss_distance_km", "velocity_km_s"} \subseteq DOMAIN a
    /\ ~(AuLe(a.miss_distance_km, 1) /\ a.velocity_km_s = 0)

WellFormedDate(a) == "date" \in DOMAIN a /\ "ordinal" \in DOMAIN a.date

IsDefaultPayload(p) ==
    /\ p.monitoring_recommendation = "DATA_REQUIRED"
    /\ p.impact_probability = "Unknown"
    /\ DOMAIN p.scenarios = {"direct_impact"}
    /\ p.scenarios.direct_impact.type = "UNKNOWN"

\* C14: calculate_impact_date never raises to its caller: for a record whose
\* date is malformed or missing it anchors the three scenarios on the current
\* date, and when the computation fails (no miss distance, no velocity, a
\* zero velocity at 0.01 AU or less) it returns the insufficient-data default.
C14_NeverRaisesAndFallsBack ==
    \A c \in Callers :
        Estimated(c) =>
            LET a == resp[c].asteroid_data
                out == resp[c].out
            IN  /\ out.raised = "none"
                /\ Computable(a) /\ ~WellFormedDate(a)
                       => /\ DOMAIN out.value.scenarios =
                                 {"direct_impact", "gravitational_perturbation",
                                  "orbital_resonance"}
                          /\ out.value.scenarios.gravitational_perturbation
                                 .estimated_impact_date.ordinal - resp[c].clock \div 24
                                 \in {365 * 2, 365 * 4, 365 * 10}
                /\ ~Computable(a) => IsDefaultPayload(out.value)

\* a zero velocity at 0.01 AU or less has got the default payload
C14_Witness ==
    \E c \in Callers :
        /\ Estimated(c)
        /\ {"miss_distance_km", "velocity_km_s"} \subseteq DOMAIN resp[c].asteroid_data
        /\ resp[c].asteroid_data.velocity_km_s = 0
        /\ AuLe(resp[c].asteroid_data.miss_distance_km, 1)
        /\ resp[c].out.raised = "none"
        /\ IsDefaultPayload(resp[c].out.value)

\* C15: every payload calculate_impact_date returns, the insufficient-data
\* default included, is accepted by calculate_defense_timeline and by the
\* impact-date endpoint without raising: its most_likely_scenario is a
\* scenario record with days_until_impact and estimated_impact_date.
C15_EveryPayloadAccepted ==
    \A c \in Callers :
        /\ resp[c].fn = "calculate_defense_timeline"
               => /\ resp[c].out.raised = "none"
                  /\ {"days_until_impact", "estimated_impact_date"}
                         \subseteq DOMAIN resp[c].impact_analysis.most_likely_scenario
        /\ (/\ resp[c].fn = "get_asteroid_impact_date"
            /\ resp[c].asteroid # None
            /\ {"name", "miss_distance_km"} \subseteq DOMAIN resp[c].asteroid)
               => resp[c].out.status = 200

\* C16: the most likely scenario is chosen by the distance alone: the direct
\* scenario at 0.01 AU or less, the perturbed one above 0.01 and up to 0.05
\* AU, the resonant one beyond, whatever the confidences of the three are;
\* it is one of the three scenario records of the same payload.
C16_MostLikelyByDistanceAlone ==
    \A c \in Callers :
        Estimated(c) /\ Computable(resp[c].asteroid_data)
                     /\ ~IsDefaultPayload(resp[c].out.value) =>
            LET km == resp[c].asteroid_data.miss_distance_km
                p == resp[c].out.value
            IN  /\ AuLe(km, 1) => p.most_likely_scenario = p.scenarios.direct_impact
                /\ ~AuLe(km, 1) /\ AuLe(km, 5)
                       => p.most_likely_scenario = p.scenarios.gravitational_perturbation
                /\ ~AuLe(km, 5) => p.most_likely_scenario = p.scenarios.orbital_resonance
                /\ p.most_likely_scenario \in
                       {p.scenarios.direct_impact, p.scenarios.gravitational_perturbation,
                        p.scenarios.orbital_resonance}

\* beyond 0.05 AU the resonant scenario is the most likely one although its
\* confidence is below that of the perturbed one
C16_Witness ==
    \E c \in Callers :
        /\ Estimated(c)
        /\ Computable(resp[c].asteroid_data)
        /\ ~IsDefaultPayload(resp[c].out.value)
        /\ ~AuLe(resp[c].asteroid_data.miss_distance_km, 5)
        /\ resp[c].out.value.most_likely_scenario.type = "ORBITAL_RESONANCE"
        /\ resp[c].out.value.most_likely_scenario.confidence = "LOW"
        /\ resp[c].out.value.scenarios.gravitational_perturbation.confidence = "MEDIUM"

\* C20: for a record with a well-formed date, two computations made at
\* different current times return the same payload.
C20_SamePayloadAtAnyTime ==
    \A c1 \in Callers, c2 \in Callers :
        (/\ Estimated(c1) /\ Estimated(c2)
         /\ resp[c1].asteroid_data = resp[c2].asteroid_data
         /\ WellFormedDate(resp[c1].asteroid_data))
            => resp[c1].out = resp[c2].out

(***************************************************************************)
(* The collaborators: claims C17 and C18                                   *)
(***************************************************************************)
\* the request raised, or the answer has another status than 200, or a body
\* that is not JSON
CollaboratorFailed(reply) ==
    \/ "raises" \in DOMAIN reply
    \/ reply.status_code # 200
    \/ reply.body.json = "invalid"

\* C17: get_location_type raises nothing, and it returns "unknown" whenever
\* the reverse geocoder it asked fails: on a connection error or a timeout,
\* on a status other than 200, on a response that cannot be parsed.
C17_UnknownWhenGeocoderFails ==
    \A c \in Callers :
        resp[c].fn = "get_location_type" =>
            /\ resp[c].out.raised = "none"
            /\ ~is_ocean_location(resp[c].lat, resp[c].lng) /\ CollaboratorFailed(resp[c].reply)
                   => resp[c].out.value = "unknown"

\* the geocoder timed out for a place on land
C17_Witness ==
    \E c \in Callers :
        /\ resp[c].fn = "get_location_type"
        /\ ~is_ocean_location(resp[c].lat, resp[c].lng)
        /\ "raises" \in DOMAIN resp[c].reply
        /\ resp[c].reply.raises = "Timeout"
        /\ resp[c].out = Return("unknown")

\* the request raised, or the body of the answer is not JSON
FeedFailed(reply) ==
    "raises" \in DOMAIN reply \/ reply.body.json = "invalid"

\* C18: when the seismic feed fails, get_earthquakes_near_location returns
\* the empty list and calculate_seismic_risk returns a report of no
\* confidence: it raises nothing and its assessment is not a confident one.
C18_FeedFailureGivesZeroConfidence ==
    \A c \in Callers :
        /\ (resp[c].fn = "get_earthquakes_near_location" /\ FeedFailed(resp[c].reply))
               => resp[c].out = <<>>
        /\ (resp[c].fn = "calculate_seismic_risk" /\ FeedFailed(resp[c].reply))
               => /\ resp[c].earthquakes = <<>>
                  /\ "confidence" \in DOMAIN resp[c].out
                  /\ resp[c].out.confidence \notin {"high", "medium"}

(***************************************************************************)
(* The endpoints: claim C19                                                *)
(***************************************************************************)
Requested(c) == resp[c].fn \in Endpoints \cup {"quantum-defense"}

\* C19: every endpoint that takes an asteroid id answers 404 when storage
\* has no row of that id, and it does so before it generates an impact site,
\* classifies or calls a collaborator: it has made no call at all.
C19_NotFoundBeforeAnyCall ==
    \A c \in Callers :
        Requested(c) /\ resp[c].asteroid_id \notin DOMAIN Storage
            => resp[c].out.status = 404 /\ resp[c].out.calls = <<>>

\* the natural-hazards endpoint was asked for an id storage has no row of
C19_Witness ==
    \E c \in Callers :
        /\ resp[c].fn = "natural-hazards"
        /\ resp[c].asteroid_id \notin DOMAIN Storage
        /\ resp[c].out = NotFound

(***************************************************************************)
(* The ocean test: claim C21                                               *)
(***************************************************************************)
\* a box of the claim: latitudes and longitudes in degrees, ends included
InBox(lat, lng, lat_min, lat_max, lng_min, lng_max) ==
    /\ lat_min * 10000 <= lat /\ lat <= lat_max * 10000
    /\ lng_min * 10000 <= lng /\ lng <= lng_max * 10000

InSomeOceanBox(lat, lng) ==
    \/ InBox(lat, lng, -60, 60, -180, -60)
    \/ InBox(lat, lng, -60, 60, -60, 20)
    \/ InBox(lat, lng, -60, 30, 20, 120)

\* C21: for every latitude in [-90, 90] and longitude in [-180, 180],
\* is_ocean_location returns a boolean, true exactly when the point lies in
\* the union of the boxes (lat -60..60, lng -180..-60), (lat -60..60,
\* lng -60..20) and (lat -60..30, lng 20..120), ends included, and it
\* returns the same for the same point on every call.
C21_OceanIsUnionOfThreeBoxes ==
    \A c \in Callers :
        resp[c].fn = "is_ocean_location" =>
            /\ resp[c].out \in BOOLEAN
            /\ resp[c].out = InSomeOceanBox(resp[c].lat, resp[c].lng)
            /\ \A d \in Callers :
                  (/\ resp[d].fn = "is_ocean_location"
                   /\ resp[d].lat = resp[c].lat
                   /\ resp[d].lng = resp[c].lng) => resp[d].out = resp[c].out

\* two calls for the corner (30, 120) of the third box, both answered true,
\* and the point just north of it answered false by an earlier call
C21_Witness ==
    /\ \A c \in Callers :
          /\ resp[c].fn = "is_ocean_location"
          /\ resp[c].lat = 300000 /\ resp[c].lng = 1200000
          /\ resp[c].out = TRUE
    /\ ~is_ocean_location(300001, 1200000)
    /\ is_ocean_location(600000, 200000)

(***************************************************************************)
(* The type of a place: claim C22                                          *)
(***************************************************************************)
\* the reverse geocoder answered 200 with a JSON object
LookupSucceeded(reply) ==
    /\ "raises" \notin DOMAIN reply
    /\ reply.status_code = 200
    /\ reply.body.json = "object"

\* the keys of the address of a successful lookup, none when the object has
\* no address
AddressOf(reply) ==
    IF "address" \in DOMAIN reply.body.data THEN reply.body.data.address ELSE {}

\* C22: get_location_type answers "ocean" for a point of the ocean boxes
\* without asking the reverse geocoder, and asks it (once) only for a point
\* outside them; the address of a successful lookup is mapped by the first
\* match of city or town -> urban_high, village or suburb -> urban_medium,
\* country -> rural, otherwise unknown, so an address with a city and a
\* country gives urban_high.
C22_OceanFirstThenFirstAddressMatch ==
    \A c \in Callers :
        resp[c].fn = "get_location_type" =>
            LET ocean == InSomeOceanBox(resp[c].lat, resp[c].lng)
                address == AddressOf(resp[c].reply)
            IN  /\ ocean => resp[c].out = Return("ocean") /\ resp[c].requests = <<>>
                /\ ~ocean => Len(resp[c].requests) = 1 /\ resp[c].out # Return("ocean")
                /\ (~ocean /\ LookupSucceeded(resp[c].reply)) =>
                      resp[c].out =
                          Return(IF address \cap {"city", "town"} # {} THEN "urban_high"
                                 ELSE IF address \cap {"village", "suburb"} # {}
                                 THEN "urban_medium"
                                 ELSE IF "country" \in address THEN "rural"
                                 ELSE "unknown")

\* a place on land whose address holds a city and a country is urban_high
C22_Witness ==
    \E c \in Callers :
        /\ resp[c].fn = "get_location_type"
        /\ ~is_ocean_location(resp[c].lat, resp[c].lng)
        /\ LookupSucceeded(resp[c].reply)
        /\ AddressOf(resp[c].reply) = {"city", "country"}
        /\ Len(resp[c].requests) = 1
        /\ resp[c].out = Return("urban_high")

(***************************************************************************)
(* Volcanoes: claim C23                                                    *)
(***************************************************************************)
\* the number of active volcanoes within radius_km (units of 0.1 km) of a
\* place; Mount St. Helens is the one volcano known
ActiveVolcanoesWithin(lat, lng, radius_km) ==
    IF distance_to_mount_st_helens(lat, lng) <= radius_km THEN 1 ELSE 0

\* C23: with no active volcano within the search radius the volcanic report
\* shows no hazard whatever the energy: estimate_ash_fall (radius 500 km)
\* returns ash_fall_expected = false and assess_volcanic_trigger_risk
\* (radius 300 km) returns LOW; a trigger risk above LOW requires both an
\* energy above 50 and a nonzero count of active volcanoes nearby.
C23_NoVolcanoNoVolcanicHazard ==
    \A c \in Callers :
        /\ resp[c].fn = "estimate_ash_fall" =>
              (ActiveVolcanoesWithin(resp[c].lat, resp[c].lng, 5000) = 0
                  => resp[c].out.ash_fall_expected = FALSE)
        /\ resp[c].fn = "assess_volcanic_trigger_risk" =>
              /\ ActiveVolcanoesWithin(resp[c].lat, resp[c].lng, 3000) = 0
                    => resp[c].out.risk_level = "LOW"
              /\ resp[c].out.risk_level # "LOW"
                    => (/\ resp[c].energy > 50
                        /\ resp[c].out.active_volcanoes_nearby > 0
                        /\ ActiveVolcanoesWithin(resp[c].lat, resp[c].lng, 3000) > 0)

\* 1001 megatons at New York, 3876.7 km from the volcano: the risk is LOW
C23_Witness ==
    \E c \in Callers :
        /\ resp[c].fn = "assess_volcanic_trigger_risk"
        /\ resp[c].energy = 1001
        /\ distance_to_mount_st_helens(resp[c].lat, resp[c].lng) > 3000
        /\ resp[c].out.risk_level = "LOW"
        /\ resp[c].out.active_volcanoes_nearby = 0

(***************************************************************************)
(* The time until impact: claims C24 and C27                               *)
(***************************************************************************)
\* C24: estimate_time_until_impact is the cascade of four buckets over the
\* miss distance in AU: 0.1 years for a distance <= 0.01, 1 year for
\* 0.01 < distance <= 0.05, 5 years for 0.05 < distance <= 0.1 and 10 years
\* otherwise, every boundary falling in the lower bucket (years in tenths).
\* The AU being 149597870.7 km, the boundaries 0.01, 0.05 and 0.1 AU are
\* 1495978 km 707 m, 7479893 km 535 m and 14959787 km 70 m.
C24_FourBucketCascade ==
    \A c \in Callers :
        resp[c].fn = "estimate_time_until_impact" =>
            LET km == resp[c].asteroid.miss_distance_km
                m == IF "miss_distance_m" \in DOMAIN resp[c].asteroid
                     THEN resp[c].asteroid.miss_distance_m ELSE 0
                within(bound_km, bound_m) ==
                    km < bound_km \/ (km = bound_km /\ m <= bound_m)
            IN  resp[c].out =
                    IF within(1495978, 707) THEN 1
                    ELSE IF within(7479893, 535) THEN 10
                    ELSE IF within(14959787, 70) THEN 50
                    ELSE 100

\* a miss distance of 0.05 AU to the metre gives 1 year
C24_Witness ==
    \E c \in Callers :
        /\ resp[c].fn = "estimate_time_until_impact"
        /\ resp[c].asteroid.miss_distance_km = 7479893
        /\ "miss_distance_m" \in DOMAIN resp[c].asteroid
        /\ resp[c].asteroid.miss_distance_m = 535
        /\ resp[c].out = 10

\* C27: get_defense_strategies never returns Gravity Tractor, whatever the
\* asteroid and the threat level: estimate_time_until_impact yields 0.1, 1,
\* 5 or 10 years only, and the Gravity Tractor rule needs more than 10.
C27_GravityTractorNeverReturned ==
    \A c \in Callers :
        /\ Selected(c) =>
              /\ "Gravity Tractor" \notin Names(resp[c].out)
              /\ estimate_time_until_impact(resp[c].asteroid_data) \in {1, 10, 50, 100}
              /\ ~gravity_rule(resp[c].asteroid_data.diameter_avg,
                               estimate_time_until_impact(resp[c].asteroid_data))
        /\ resp[c].fn = "estimate_time_until_impact" => resp[c].out \in {1, 10, 50, 100}

\* an asteroid of less than 1000 m at 1 AU, the farthest bucket (10 years):
\* the selector returns the impactor without the tractor
C27_Witness ==
    \E c \in Callers :
        /\ Selected(c)
        /\ resp[c].asteroid_data.diameter_avg < 1000
        /\ resp[c].asteroid_data.miss_distance_km = 149597870
        /\ "Kinetic Impactor" \in Names(resp[c].out)
        /\ "Gravity Tractor" \notin Names(resp[c].out)

(***************************************************************************)
(* The table asteroids: claim C26                                          *)
(***************************************************************************)
RowsOfId(table, id) == {row \in table : row.id = id}

\* the rows of a file that load_from_csv committed, none when it returned
\* False
Committed(csv, returned) == IF returned THEN csv.rows ELSE <<>>

\* the last row of an id in a sequence of rows, as the table stores it
LastLoaded(rows, id) ==
    LET i == CHOOSE i \in 1..Len(rows) :
                 rows[i].id = id /\ \A j \in (i + 1)..Len(rows) : rows[j].id # id
    IN  with_is_potentially_hazardous(rows[i])

\* a step of load_from_csv: for every id, the table holds after it the last
\* row of the id the call committed, and the rows it held before for an id
\* the call committed no row of
LoadKeepsMostRecent ==
    (resp'["c1"].fn = "load_from_csv" /\ (resp' # resp \/ db' # db)) =>
        LET rows == Committed(resp'["c1"].csv, resp'["c1"].out)
        IN  \A id \in 1..4 :
                RowsOfId(db', id) =
                    IF \E i \in 1..Len(rows) : rows[i].id = id
                    THEN {LastLoaded(rows, id)}
                    ELSE RowsOfId(db, id)

\* C26: after any sequence of load_from_csv calls the table holds at most
\* one record per id; get_asteroid_by_id(id) returns the row most recently
\* loaded for the id (every load leaves the last row it committed for an id
\* as the one row of that id, and get_asteroid_by_id returns the row of the
\* id the table holds) and returns nothing for an id that was never loaded.
C26_OneRowPerIdMostRecentWins ==
    /\ [](\A id \in 1..4 : Cardinality(RowsOfId(db, id)) <= 1)
    /\ [](\A c \in Callers :
            resp[c].fn = "db.get_asteroid_by_id" =>
                /\ RowsOfId(db, resp[c].asteroid_id) = {}
                       => resp[c].out = None
                /\ RowsOfId(db, resp[c].asteroid_id) # {}
                       => RowsOfId(db, resp[c].asteroid_id) = {resp[c].out})
    /\ [][LoadKeepsMostRecent]_vars

\* a file with two rows of id 1 was loaded: the table holds the second one
\* only
C26_Witness ==
    \E c \in Callers :
        /\ resp[c].fn = "load_from_csv"
        /\ resp[c].out = TRUE
        /\ Len(resp[c].csv.rows) = 2
        /\ resp[c].csv.rows[1].id = 1 /\ resp[c].csv.rows[2].id = 1
        /\ resp[c].csv.rows[1].name = "(2026 AB)"
        /\ RowsOfId(db, 1) = {with_is_potentially_hazardous(resp[c].csv.rows[2])}
        /\ RowsOfId(db, 2) # {}

(***************************************************************************)
(* The threats of the table: claim C25                                     *)
(***************************************************************************)
\* C25: validate_and_identify_threats lists exactly the stored records whose
\* miss distance is at most 0.05 AU (7479893 km), labels a record CRITICAL,
\* with is_immediate_threat true, exactly when its distance is at most 0.01
\* AU (1495978 km) and HIGH otherwise, and returns them in ascending order
\* of distance, so that no HIGH threat precedes a CRITICAL one.
C25_ThreatsByDistanceCriticalFirst ==
    \A c \in Callers :
        resp[c].fn = "validate_and_identify_threats" =>
            LET out == resp[c].out
                within == {row \in db : row.miss_distance_km <= 7479893}
            IN  /\ Len(out) = Cardinality(within)
                /\ {out[i].id : i \in 1..Len(out)} = {row.id : row \in within}
                /\ \A i \in 1..Len(out) :
                       /\ out[i].is_immediate_threat = (out[i].distance_km <= 1495978)
                       /\ out[i].threat_level =
                              IF out[i].distance_km <= 1495978 THEN "CRITICAL" ELSE "HIGH"
                /\ \A i \in 1..Len(out), j \in 1..Len(out) :
                       i < j =>
                           /\ out[i].distance_km <= out[j].distance_km
                           /\ ~(out[i].threat_level = "HIGH"
                                  /\ out[j].threat_level = "CRITICAL")

(***************************************************************************)
(* Strategies for the closest asteroids: claim C28                         *)
(***************************************************************************)
\* C28: for every stored asteroid whose miss distance is at most 0.01 AU
\* (1495978 km) the endpoints pass the threat level CRITICAL, and the
\* defense_strategies list of the asteroid-detail and raw-data endpoints is
\* empty: CRITICAL does not admit Nuclear Deflection, the time until impact
\* is 0.1 years and a stored record has no spectral type; CRITICAL maps to
\* the priority score 1, that of LOW.
C28_NoStrategyForCriticalAsteroids ==
    \A c \in Callers :
        /\ (resp[c].fn = "/asteroids/{asteroid_id}" /\ resp[c].out.status = 200
               /\ resp[c].out.miss_distance_km <= 1495978) =>
              /\ resp[c].out.threat_level = "CRITICAL"
              /\ resp[c].out.time_until_impact_years = 1
              /\ resp[c].out.defense_strategies = <<>>
        /\ (resp[c].fn = "/asteroids/raw" /\ resp[c].out.status = 200
               /\ resp[c].out.include_defense) =>
              \A i \in 1..Len(resp[c].out.data) :
                  resp[c].out.data[i].miss_distance_km <= 1495978 =>
                      /\ "spectral_type" \notin DOMAIN resp[c].out.data[i]
                      /\ resp[c].out.data[i].defense_strategies = <<>>
        /\ priority_factors("CRITICAL") = 1 /\ priority_factors("LOW") = 1

\* the asteroid of 201 m at 0.01 AU gets no strategy from the detail
\* endpoint
C28_Witness ==
    \E c \in Callers :
        /\ resp[c].fn = "/asteroids/{asteroid_id}"
        /\ resp[c].out.status = 200
        /\ resp[c].out.miss_distance_km = 1495978
        /\ db_get_asteroid_by_id(resp[c].asteroid_id).diameter_avg = 201
        /\ resp[c].out.threat_level = "CRITICAL"
        /\ resp[c].out.defense_strategies = <<>>

(***************************************************************************)
(* The user impact analysis: claim C29                                     *)
(***************************************************************************)
\* C29: for every input inside the validated ranges of UserAsteroidInput
\* (diameter 0.01 to 10 km, velocity 1 to 70 km/s) the user impact-analysis
\* operation answers with an empty defense_recommendations list: it passes
\* the miss distance 0 (0.1 years until impact), the threat level HIGH and
\* no spectral type, so no rule of the selector holds and the asteroid
\* data, which has no name, is never enriched.
C29_NoRecommendationForUserInput ==
    \A c \in Callers :
        (/\ resp[c].fn = "/user/impact-analysis"
         /\ resp[c].user_input.diameter_km \in 1..10
         /\ resp[c].user_input.velocity_km_s \in 1..70
         /\ resp[c].user_input.density_kg_m3 \in 1000..8000) =>
            /\ resp[c].out.status = 200
            /\ resp[c].out.defense_recommendations = <<>>

\* the largest and fastest asteroid of the ranges gets no recommendation
C29_Witness ==
    \E c \in Callers :
        /\ resp[c].fn = "/user/impact-analysis"
        /\ resp[c].user_input.diameter_km = 10
        /\ resp[c].user_input.velocity_km_s = 70
        /\ resp[c].out.status = 200
        /\ resp[c].out.defense_recommendations = <<>>

====
